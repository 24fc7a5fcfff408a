----------------------------- MODULE QuerySyntax -----------------------------
(***************************************************************************)
(* The parsers of q and of scopeQ (src/src/query/language.rs).             *)
(*                                                                         *)
(* A text is a sequence of tokens: a name, a literal, an operator and each *)
(* delimiter is one.  Blanks, and the trimming of them, are left out, and  *)
(* no two names or literals follow each other in a text.                   *)
(*                                                                         *)
(* What a text is parsed to is a tagged tuple:                             *)
(*   <<"or", parts>>, <<"and", parts>>, <<"exists", attribute>> and        *)
(*   <<operator, attribute, operand>>;                                     *)
(*   <<"path", segments, trailing>>, where trailing is <<>>, <<"*">> or    *)
(*   the names between brackets, and                                       *)
(*   <<"linked", relation, types, attribute>>;                             *)
(*   <<"single", <<value>>>>, <<"list", values>>, <<"range", <<low, high>>>>, *)
(*   a comparable value or a pattern.                                      *)
(* JSON values are tagged as well: <<"num", n>>, <<"bool", b>>,            *)
(* <<"str", text>>, <<"arr", items>> and <<"obj", members>>.               *)
(***************************************************************************)
EXTENDS Integers, FiniteSets, Sequences, SequencesExt, FiniteSetsExt

CONSTANTS Name,      \* tokens validate_name accepts
          NumberOf,  \* NumberOf[t]: the number token t stands for
          JsonOf,    \* JsonOf[text]: what serde_json reads quoted text as
          Regexes    \* texts that regex compiles

Bad == <<"bad request">> \* BrokerError::BadRequest

Operators == {"!~=", "~=", ">=", "<=", "!=", "==", ">", "<"}
-------------------------------------------------------------------------------
\* ScanState: how deep the scanner is in delimiters, and in a JSON string.
Start == [paren |-> 0, brace |-> 0, bracket |-> 0, string |-> FALSE, escaped |-> FALSE]

is_top_level(state) ==
  ~ state.string /\ state.paren = 0 /\ state.brace = 0 /\ state.bracket = 0

Turn(token, open, close) == CASE token = open -> 1 [] token = close -> -1 [] OTHER -> 0

step(state, token) ==
  CASE state.string ->
         [state EXCEPT !.string = state.escaped \/ token # "\"",
                       !.escaped = ~ state.escaped /\ token = "\\"]
    [] ~ state.string /\ token = "\"" -> [state EXCEPT !.string = TRUE]
    [] OTHER -> [state EXCEPT !.paren = @ + Turn(token, "(", ")"),
                              !.brace = @ + Turn(token, "{", "}"),
                              !.bracket = @ + Turn(token, "[", "]")]

\* The states of the scanner before each token of s and after the last.
Scan(s) == FoldLeft(LAMBDA states, token : Append(states, step(Last(states), token)),
                    <<Start>>, s)

\* The places of s, one past its end included, where the scanner is outside.
TopLevel(s) == LET states == Scan(s) IN {i \in DOMAIN states : is_top_level(states[i])}

find_top_level(s, tokens) == {i \in TopLevel(s) \ {Len(s) + 1} : s[i] \in tokens}

\* The pieces of s between the places in cuts.
Pieces(s, cuts) ==
  LET ends == <<0>> \o SetToSortSeq(cuts, <) \o <<Len(s) + 1>>
  IN  [k \in 1 .. Cardinality(cuts) + 1 |-> SubSeq(s, ends[k] + 1, ends[k + 1] - 1)]

split_top_level(s, separators) == Pieces(s, find_top_level(s, separators))

\* str::split, which knows no nesting; the parser then drops empty pieces.
split(s, separators) ==
  SelectSeq(Pieces(s, {i \in DOMAIN s : s[i] \in separators}), LAMBDA piece : piece # <<>>)

\* The levels of a scope; what comes before its first slash is skipped.
Levels(s) == SelectSeq(Tail(Pieces(s, {i \in DOMAIN s : s[i] = "/"})), LAMBDA piece : piece # <<>>)

Before(s, i) == SubSeq(s, 1, i - 1)
After(s, i) == SubSeq(s, i + 1, Len(s))

\* The first of some places, 0 if there is none.
FirstOf(places) == IF places = {} THEN 0 ELSE Min(places)

\* Where the delimiter opened at i is closed, counting its own kind only.
find_matching_delimiter(s, i, kind) ==
  LET states == Scan(SubSeq(s, i, Len(s)))
  IN  FirstOf({i + j - 2 : j \in {j \in 2 .. Len(states) : states[j][kind] = 0}})

\* What the delimiter opened at i holds, if it is closed by the last token.
ClosesLast(s, i, kind) == find_matching_delimiter(s, i, kind) = Len(s)
Inner(s, i) == SubSeq(s, i + 1, Len(s) - 1)

\* Mutant of is_wrapped_by_parentheses: the ends are looked at, not the pair.
is_wrapped_by_ends(s) == s # <<>> /\ Head(s) = "(" /\ Last(s) = ")"

is_wrapped_by_parentheses(s) ==
  /\ s # <<>> /\ Head(s) = "(" /\ Last(s) = ")"
  /\ TopLevel(s) \ {1} = {Len(s) + 1}

Unwrapped(s) == SubSeq(s, 2, Len(s) - 1)

RECURSIVE strip_wrapping_parentheses(_)
strip_wrapping_parentheses(s) ==
  IF is_wrapped_by_parentheses(s) THEN strip_wrapping_parentheses(Unwrapped(s)) ELSE s

\* collect: the first error is the result.
Collected(parts, tag) == IF \E k \in DOMAIN parts : parts[k] = Bad THEN Bad ELSE <<tag, parts>>
-------------------------------------------------------------------------------
validate_name(s) == Len(s) = 1 /\ s[1] \in Name

\* Names of a dotted path; Bad if there is none or one is malformed.
NamesIn(pieces) ==
  IF pieces = <<>> \/ \E k \in DOMAIN pieces : ~ validate_name(pieces[k]) THEN Bad
  ELSE [k \in DOMAIN pieces |-> pieces[k][1]]

parse_dotted_names(s) == NamesIn(split(s, {".", ".."}))

PathOf(base, trailing) == IF Bad \in {base, trailing} THEN Bad ELSE <<"path", base, trailing>>

\* The path s with its first bracket at `open', or 0.
PathFrom(s, open) ==
  IF open = 0 THEN PathOf(parse_dotted_names(s), <<>>)
  ELSE PathOf(parse_dotted_names(Before(s, open)),
              CASE ~ ClosesLast(s, open, "bracket") -> Bad
                [] Inner(s, open) = <<"*">> -> <<"*">>
                [] OTHER -> parse_dotted_names(Inner(s, open)))

parse_value_path(s) == PathFrom(s, FirstOf(find_top_level(s, {"["})))

LinkedOf(relation, types, attribute) ==
  IF Bad \in {types, attribute} THEN Bad ELSE <<"linked", relation, types, attribute>>

\* `relation{Type,Type:attribute}' for a linked entity, or a value path.
RECURSIVE parse_query_attribute(_)
LinkedFrom(relation, inner, colon) ==
  LinkedOf(relation,
           IF colon = 0 THEN <<>> ELSE NamesIn(split(Before(inner, colon), {","})),
           parse_query_attribute(After(inner, colon)))

AttributeFrom(s, open) ==
  IF open = 0 THEN parse_value_path(s)
  ELSE IF ~ validate_name(Before(s, open)) \/ ~ ClosesLast(s, open, "brace") THEN Bad
  ELSE LinkedFrom(s[1], Inner(s, open), FirstOf(find_top_level(Inner(s, open), {":"})))

parse_query_attribute(s) ==
  IF s = <<>> THEN Bad ELSE AttributeFrom(s, FirstOf(find_top_level(s, {"{"})))
-------------------------------------------------------------------------------
parse_query_value(s) ==
  CASE s # <<>> /\ Head(s) \in {"\"", "[", "{"} -> IF s \in DOMAIN JsonOf THEN JsonOf[s] ELSE Bad
    [] s \in {<<"true">>, <<"false">>} -> <<"bool", s = <<"true">> >>
    [] Len(s) = 1 /\ s[1] \in DOMAIN NumberOf -> <<"num", NumberOf[s[1]]>>
    [] OTHER -> <<"str", s>>

Comparable(value) == IF value[1] \in {"num", "str"} THEN value ELSE Bad
parse_comparable_value(s) == Comparable(parse_query_value(s))

parse_values(pieces) == [k \in DOMAIN pieces |-> parse_query_value(pieces[k])]
ListOf(values) == Collected(values, IF Len(values) > 1 THEN "list" ELSE "single")

EqualityFrom(s, dots) ==
  IF dots = 0 THEN ListOf(parse_values(split_top_level(s, {","})))
  ELSE Collected(<<parse_comparable_value(Before(s, dots)),
                   parse_comparable_value(After(s, dots))>>, "range")

parse_equality_operand(s) == EqualityFrom(s, FirstOf(find_top_level(s, {".."})))

Compiled(pattern) == IF pattern[1] = "str" /\ pattern[2] \in Regexes THEN pattern ELSE Bad
parse_regex_pattern(s) == Compiled(IF Head(s) = "\"" THEN parse_query_value(s) ELSE <<"str", s>>)

parse_operand(operator, s) ==
  CASE operator \in {"==", "!="} -> parse_equality_operand(s)
    [] operator \in {"~=", "!~="} -> parse_regex_pattern(s)
    [] OTHER -> parse_comparable_value(s)

TermOf(operator, attribute, operand) ==
  IF attribute = Bad \/ operand = Bad THEN Bad ELSE <<operator, attribute, operand>>

Exists(attribute) == IF attribute = Bad THEN Bad ELSE <<"exists", attribute>>

\* The term s with its first operator at i, or 0.
TermFrom(s, i) ==
  CASE i = 0 -> Exists(parse_query_attribute(s))
    [] i # 0 /\ i = Len(s) -> Bad
    [] OTHER -> TermOf(s[i], parse_query_attribute(Before(s, i)), parse_operand(s[i], After(s, i)))

\* One part alone stands for itself.
Combined(parts, tag) == IF Len(parts) > 1 THEN Collected(parts, tag) ELSE parts[1]

RECURSIVE parse_q_or(_)
parse_q_term(s) ==
  IF is_wrapped_by_parentheses(s) THEN parse_q_or(Unwrapped(s))
  ELSE TermFrom(s, FirstOf(find_top_level(s, Operators)))

Terms(parts) == [k \in DOMAIN parts |-> parse_q_term(parts[k])]
parse_q_and(s) == Combined(Terms(split_top_level(strip_wrapping_parentheses(s), {";"})), "and")

Branches(parts) == [k \in DOMAIN parts |-> parse_q_and(parts[k])]
parse_q_or(s) == Combined(Branches(split_top_level(strip_wrapping_parentheses(s), {"|"})), "or")

\* No text, and an empty one, ask for nothing: every value matches.
Everything == <<"everything">>
parse_q_expression(s) == IF s = <<>> THEN Everything ELSE parse_q_or(s)
-------------------------------------------------------------------------------
\* A pattern of scopes: its levels, "+" for any, and whether what lies below
\* matches too.
parse_scope_pattern(s) ==
  LET below  == Len(s) >= 2 /\ SubSeq(s, Len(s) - 1, Len(s)) = <<"/", "#">>
      base   == IF below THEN SubSeq(s, 1, Len(s) - 2) ELSE s
      levels == Levels(base)
  IN  IF s = <<"/", "#">> THEN <<"pattern", <<>>, TRUE>>
      ELSE IF \/ base = <<>> \/ Head(base) # "/" \/ levels = <<>>
              \/ \E k \in DOMAIN levels :
                   levels[k] # <<"+">> /\ ~ validate_name(levels[k]) THEN Bad
      ELSE <<"pattern", [k \in DOMAIN levels |-> levels[k][1]], below>>

parse_scope_branch(s) ==
  LET parts    == split_top_level(IF is_wrapped_by_parentheses(s) THEN Unwrapped(s) ELSE s, {";"})
      patterns == [k \in DOMAIN parts |-> parse_scope_pattern(parts[k])]
  IN  IF s = <<"/", "#">> THEN <<"any">>
      ELSE IF Len(parts) = 1 THEN patterns[1]
      ELSE IF is_wrapped_by_parentheses(s) THEN Collected(patterns, "and") ELSE Bad

parse_scope_expression(s) ==
  LET parts    == split_top_level(s, {"|", ","})
      branches == [k \in DOMAIN parts |-> parse_scope_branch(parts[k])]
  IN  IF s = <<>> THEN Everything
      ELSE IF Len(parts) > 1 THEN Collected(branches, "or") ELSE branches[1]
===============================================================================
