------------------------------ MODULE Negotiation ------------------------------
(***************************************************************************)
(* Preferences for media types: how they are read from the Accept headers  *)
(* (HeaderUtil, AcceptPreferenceParser), and how a type is weighed against *)
(* them (ConversionUtil).                                                  *)
(*                                                                         *)
(* A header is a sequence of lexemes, <<kind, text>>: a "token", a "mark"  *)
(* (one of , ; / =), a quoted "string", or anything else, "bad".  A media  *)
(* type or range is <<type, subtype>>, preferences are a function from     *)
(* ranges to weights, and the types that a converter can make are a        *)
(* sequence of records with a value and a weight.                          *)
(***************************************************************************)
EXTENDS Integers, Sequences, SequencesExt

CONSTANTS
  One,         \* the weight 1; weights are multiples of 1 / One
  QValue,      \* the weight that each well-formed q value stands for
  Languages    \* well-formed language ranges

ASSUME WeightsAssumption == One \in Nat \ {0} /\ QValue \in [DOMAIN QValue -> Nat]

Nothing == [r \in {} |-> 0]
\* Rounded up: a product of weights that are not 0 is not 0.
Times(v, w) == (v * w + One - 1) \div One
Least(S) == CHOOSE x \in S : \A y \in S : x <= y
Greatest(S) == CHOOSE x \in S : \A y \in S : x >= y

InternalAll == <<"internal", "*">>
All == <<"*", "*">>

-----------------------------------------------------------------------------
(* HeaderUtil.                                                             *)

Split(lexemes, mark) ==
  FoldLeft(LAMBDA parts, l :
             IF l = <<"mark", mark>> THEN Append(parts, <<>>)
             ELSE [parts EXCEPT ![Len(parts)] = Append(@, l)],
           <<(<<>>)>>, lexemes)

\* Quoted strings, and the marks in them, are out of the way when a header is
\* split.  One with characters that are not allowed is an error (400).
transformQuotedStrings(header) == \A i \in DOMAIN header : header[i][1] # "bad"

splitAndClean(header) == SelectSeq(Split(header, ","), LAMBDA part : part # <<>>)

IsToken(lexemes) == Len(lexemes) = 1 /\ lexemes[1][1] = "token"
Text(lexemes) == IF lexemes = <<>> THEN "" ELSE lexemes[1][2]

\* What is after a second = is ignored.
parseParameter(lexemes) ==
  LET halves == Split(lexemes, "=") IN
  [name |-> halves[1], value |-> IF Len(halves) > 1 THEN halves[2] ELSE <<>>]

ValidParameter(p) ==
  /\ IsToken(p.name)
  /\ p.value = <<>> \/ (Len(p.value) = 1 /\ p.value[1][1] \in {"token", "string"})

testQValue(value) == Text(value) \in DOMAIN QValue

\* One range of an Accept header: a q value ends the parameters of the media
\* type, which need a value each; the last one counts.
parseAcceptPart(part) ==
  LET groups == Split(part, ";")
      range == Split(groups[1], "/")
      parameters == [i \in 1 .. Len(groups) - 1 |-> parseParameter(groups[i + 1])]
      qs == {i \in DOMAIN parameters : Text(parameters[i].name) = "q"}
  IN  [valid |->
         /\ Len(range) > 1 /\ IsToken(range[1]) /\ IsToken(range[2])
         /\ \A i \in DOMAIN parameters :
              /\ ValidParameter(parameters[i])
              /\ i \in qs => testQValue(parameters[i].value)
              /\ parameters[i].value = <<>> => \E j \in qs : j < i,
       range |-> [i \in DOMAIN range |-> Text(range[i])],
       weight |-> IF qs = {} THEN One
                  ELSE LET q == Text(parameters[Greatest(qs)].value)
                       IN  IF q \in DOMAIN QValue THEN QValue[q] ELSE 0]

parseAccept(header) ==
  LET parts == splitAndClean(header) IN {parseAcceptPart(parts[i]) : i \in DOMAIN parts}

\* The other headers: values with no parameter but a weight.  They are
\* checked, and no converter looks at them.
RangeOf(part) == Split(part, ";")[1]

parseNoParameters(part) ==
  LET groups == Split(part, ";")
      q == parseParameter(groups[2])
  IN  Len(groups) > 1 /\ groups[2] # <<>> => Text(q.name) = "q" /\ testQValue(q.value)

parseAcceptTokens(header) ==
  LET parts == splitAndClean(header)
  IN  \A i \in DOMAIN parts : IsToken(RangeOf(parts[i])) /\ parseNoParameters(parts[i])

IsLanguage(range) == Len(range) = 1 /\ Text(range) \in Languages \cup {"*"}

parseAcceptLanguage(header) ==
  LET parts == splitAndClean(header)
  IN  \A i \in DOMAIN parts : IsLanguage(RangeOf(parts[i])) /\ parseNoParameters(parts[i])

parseAcceptDateTime(header) == header = <<>> \/ (Len(header) = 1 /\ header[1][1] = "date")

\* The host and the protocol that a proxy was asked for, "none" if it does not
\* say: of several the last counts, and X-Forwarded-* only without Forwarded.
parseForwarded(headers) ==
  LET pairs == headers.forwarded
      Named(name) == {i \in DOMAIN pairs : pairs[i][1] = name}
  IN  [name \in {"host", "proto"} |->
         IF pairs = <<>> THEN headers.xForwarded[name]
         ELSE IF Named(name) = {} THEN "none" ELSE pairs[Greatest(Named(name))][2]]

\* AcceptPreferenceParser: whether the headers can be parsed,
ValidPreferences(headers) ==
  /\ transformQuotedStrings(headers.accept)
  /\ \A p \in parseAccept(headers.accept) : p.valid
  /\ parseAcceptTokens(headers.charset) /\ parseAcceptTokens(headers.encoding)
  /\ parseAcceptLanguage(headers.language) /\ parseAcceptDateTime(headers.datetime)

\* and the weight of each range.  The ranges are sorted by weight and put in an
\* object one after the other: of several with one range the last, lowest is kept.
Preferences(headers) ==
  LET parts == parseAccept(headers.accept) IN
  [r \in {p.range : p \in parts} |-> Least({p.weight : p \in {q \in parts : q.range = r}})]

-----------------------------------------------------------------------------
(* ConversionUtil.                                                         *)

\* No preference is any type; internal types have to be asked for.
cleanPreferences(preferences) ==
  LET preferred == IF preferences = Nothing THEN [r \in {All} |-> One] ELSE preferences IN
  [r \in DOMAIN preferred \cup {InternalAll} |->
     IF r \in DOMAIN preferred THEN preferred[r] ELSE 0]

\* The weight of the most specific range that the type is in.
getTypeWeight(type, preferred) ==
  LET ranges == <<type, <<type[1], "*">>, All>>
      matching == {i \in 1 .. 3 : ranges[i] \in DOMAIN preferred}
  IN  IF matching = {} THEN 0 ELSE preferred[ranges[Least(matching)]]

NoMatch == [value |-> "none", weight |-> 0]

\* The first of the types with the highest weight.
getBestPreference(types, preferred) ==
  FoldLeft(LAMBDA best, t :
             LET weight == Times(t.weight, getTypeWeight(t.value, preferred)) IN
             IF best.weight >= t.weight \/ weight <= best.weight THEN best
             ELSE [value |-> t.value, weight |-> weight],
           NoMatch, types)

getConversionTarget(types, preferences) ==
  getBestPreference(types, cleanPreferences(preferences))

matchesMediaPreferences(type, preferences) ==
  getTypeWeight(type, cleanPreferences(preferences)) > 0

matchesMediaType(a, b) ==
  \/ a[1] = "*" \/ b[1] = "*"
  \/ a[1] = b[1] /\ (a[2] = "*" \/ b[2] = "*" \/ a[2] = b[2])

isInternalContentType(type) == matchesMediaType(type, InternalAll)
=============================================================================
