------------------------------ MODULE Conversion ------------------------------
(***************************************************************************)
(* How a representation gets a content type that its reader accepts: a     *)
(* waterfall of a constant converter, no conversion, a replacement of the  *)
(* type, and a chain of converters (ChainedConverter).  The chain is       *)
(* searched for with the help of a cache that all requests share; a search *)
(* awaits the types of the converters, so others run in between.           *)
(***************************************************************************)
EXTENDS Negotiation, FiniteSets

CONSTANTS
  RdfWeights,    \* how well the RDF libraries read and write each type they can
  Scenarios,     \* bound: the settings of the server, and what it is sent
  Tolerance      \* 0.01: how close to the best a chain has to be

VARIABLES
  scenario,      \* which of them
  pc,            \* what each request does next
  cache,         \* ChainedConverter.cache: the least recently used path first
  job            \* the conversion that each request is at

conversionVars == <<cache, job>>

setup == scenario.setup
Workload == DOMAIN pc
Go(c, to) == pc' = [pc EXCEPT ![c] = to]

Quads == <<"internal", "quads">>
Error == <<"internal", "error">>
Html == <<"text", "html">>
Markdown == <<"text", "markdown">>
NoType == <<"none", "none">>
RdfTypes == DOMAIN RdfWeights
Only(type) == [r \in {type} |-> One]

\* What is configured is in sequences, and weighed with natural numbers; what a
\* converter lists it can convert.
IsSequence(s) == s \in Seq(ToSet(s))
MediaTypes == STRING \X STRING
KnownTypes == MediaTypes \ {NoType}

ASSUME SetupsAssumption ==
  \A s \in {x.setup : x \in Scenarios} :
    /\ s.cacheSize \in Nat /\ IsSequence(s.converters) /\ IsSequence(s.replacements)
    /\ \A converter \in ToSet(s.converters) :
         /\ \A range \in DOMAIN converter.input : converter.input[range] \in Nat \ {0}
         /\ IsSequence(converter.output)
         /\ \A t \in ToSet(converter.output) :
              t \in [value : {t.value}, weight : Nat \ {0}] /\ t.value \in KnownTypes
    /\ \A replacement \in ToSet(s.replacements) :
         IsSequence(replacement.to) /\ ToSet(replacement.to) \subseteq KnownTypes
    /\ s.constant.type \in KnownTypes

-----------------------------------------------------------------------------
(* The typed converters: which types they take, and which they make.       *)

Converter(input, output) == [input |-> input, output |-> output]
To(type, weight) == [value |-> type, weight |-> weight]

RdfToQuad == Converter(RdfWeights, <<To(Quads, One)>>)
QuadToRdf ==
  LET types == SetToSeq(RdfTypes)
  IN  Converter(Only(Quads), [i \in DOMAIN types |-> To(types[i], RdfWeights[types[i]])])
ErrorToQuad == Converter(Only(Error), <<To(Quads, One)>>)
ErrorToTemplate == Converter(Only(Error), <<To(Markdown, One)>>)
MarkdownToHtml == Converter(Only(Markdown), <<To(Html, One)>>)

-----------------------------------------------------------------------------
(* ChainedConverter.                                                       *)

\* The elements of a sequence that are in a set.
picked(seq, S) ==
  FoldLeft(LAMBDA some, x : IF x \in S THEN Append(some, x) ELSE some, <<>>, seq)

NoPath == [converters |-> <<>>, outTypes |-> <<>>]

\* What is found of a way to a type: nothing yet, or a path with the type at
\* its end and its weight.
Unmatched == [path |-> NoPath, outType |-> NoType, weight |-> 0]

NoJob == [from |-> NoType, preferences |-> Nothing, container |-> FALSE,
          lookups |-> 0, match |-> Unmatched, generated |-> FALSE,
          result |-> NoType, then |-> "none"]

converters == setup.converters

inTypes(path) == converters[path.converters[1]].input

Match(path, inType, out) ==
  [path |-> path, outType |-> out.value,
   weight |-> Times(getTypeWeight(inType, inTypes(path)), out.weight)]

getMatchedPath(inType, preferences, path) ==
  LET out == getBestPreference(path.outTypes, preferences) IN
  IF getTypeWeight(inType, inTypes(path)) = 0 \/ out = NoMatch THEN Unmatched
  ELSE Match(path, inType, out)

\* A mistake for find: a path that takes the type is enough.
findByInput(inType, preferences) ==
  LET taking == {i \in DOMAIN cache : getTypeWeight(inType, inTypes(cache[i])) > 0}
  IN  IF taking = {} THEN 0 ELSE Greatest(taking)

\* LruPathCache.find: the most recently used of the paths that match, or 0.
find(inType, preferences) ==
  LET matching == {i \in DOMAIN cache :
                     getMatchedPath(inType, preferences, cache[i]) # Unmatched}
  IN  IF matching = {} THEN 0 ELSE Greatest(matching)

\* A mistake for add: the size is checked before the path is there.
addThenSome(path) ==
  Append(IF Len(cache) > setup.cacheSize THEN Tail(cache) ELSE cache, path)

\* LruPathCache.add
add(path) ==
  LET grown == Append(cache, path)
  IN  IF Len(grown) > setup.cacheSize THEN Tail(grown) ELSE grown

\* The paths of one converter.
initialPaths(inType) ==
  LET usable == picked([i \in DOMAIN converters |-> i],
                       {i \in DOMAIN converters : getTypeWeight(inType, converters[i].input) > 0})
  IN  [k \in DOMAIN usable |->
         [converters |-> <<usable[k]>>, outTypes |-> converters[usable[k]].output]]

\* The weight of the best so far counts its input type, that of the next does not.
findBest(inType, preferences, paths) ==
  FoldLeft(LAMBDA best, path :
             LET out == getBestPreference(path.outTypes, preferences) IN
             IF out = NoMatch \/ best.weight >= out.weight THEN best
             ELSE Match(path, inType, out),
           Unmatched, paths)

\* The paths that can still be better than the best, for which the highest of
\* the preferences is what matters.
removeBadPaths(paths, maxWeight, inType, best) ==
  LET optimistic(path) ==
        Times(Times(getTypeWeight(inType, inTypes(path)),
                    Greatest({t.weight : t \in ToSet(path.outTypes)})), maxWeight)
  IN  IF best = Unmatched THEN paths
      ELSE IF best.weight >= maxWeight - Tolerance THEN <<>>
      ELSE picked(paths, {path \in ToSet(paths) : optimistic(path) > best.weight})

\* The paths with one more converter, that takes the type that suits it best.
takeStep(path) ==
  LET accepted(i) == getBestPreference(path.outTypes, converters[i].input)
      next == picked([i \in DOMAIN converters |-> i],
                     {i \in DOMAIN converters \ ToSet(path.converters) : accepted(i) # NoMatch})
  IN  [k \in DOMAIN next |->
         [converters |-> Append(path.converters, next[k]),
          outTypes |-> [o \in DOMAIN converters[next[k]].output |->
            [converters[next[k]].output[o] EXCEPT !.weight = Times(accepted(next[k]).weight, @)]]]]

\* As many steps as there can be, since no converter is used twice.
generatePath(inType, preferences) ==
  LET maxWeight == Greatest({preferences[r] : r \in DOMAIN preferences})
      Keep(paths, best) ==
        [paths |-> removeBadPaths(paths, maxWeight, inType, best), best |-> best]
      Further(search, round) ==
        LET paths == FlattenSeq([i \in DOMAIN search.paths |-> takeStep(search.paths[i])])
            newBest == findBest(inType, preferences, paths)
        IN  Keep(paths, IF newBest.weight > search.best.weight THEN newBest ELSE search.best)
      first == initialPaths(inType)
  IN  FoldLeft(Further, Keep(first, findBest(inType, preferences, first)),
               [i \in DOMAIN converters |-> i]).best

-----------------------------------------------------------------------------
(* The other converters.                                                   *)

\* ConstantConverter.canHandle: only for the kinds of resources it is meant
\* for, and if its type is asked for by more than a full wildcard.
ConstantApplies(j) ==
  LET constant == setup.constant
      specific == [r \in DOMAIN j.preferences \cup {All} |->
                     IF r = All THEN 0 ELSE j.preferences[r]]
      quality == getTypeWeight(constant.type, cleanPreferences(specific))
  IN  /\ constant.enabled
      /\ j.preferences # Nothing
      /\ IF j.container THEN constant.container ELSE constant.document
      /\ quality > 0 /\ quality >= constant.minQuality
      /\ ~matchesMediaType(j.from, constant.type)

\* ContentTypeReplacer: the types that a pattern leads to, what follows from a
\* type before the type after it.
contentTypeMap(pattern) ==
  LET replacements == setup.replacements
      Of(t) == FlattenSeq([i \in DOMAIN replacements |->
                             IF replacements[i].from = t THEN replacements[i].to ELSE <<>>])
      all == FlattenSeq([i \in DOMAIN replacements |-> replacements[i].to])
      addReplacement(s, step) ==
        IF s.todo = <<>> THEN s
        ELSE IF Head(s.todo) \in ToSet(s.out) THEN [s EXCEPT !.todo = Tail(@)]
        ELSE [out |-> Append(s.out, Head(s.todo)), todo |-> Of(Head(s.todo)) \o Tail(s.todo)]
  IN  FoldLeft(addReplacement, [out |-> <<>>, todo |-> Of(pattern)], Of(pattern) \o all).out

\* The replacement that suits the preferences best, or none.
getReplacementType(j) ==
  LET replacements == setup.replacements
      supported == FlattenSeq([i \in DOMAIN replacements |->
        IF matchesMediaType(j.from, replacements[i].from)
        THEN contentTypeMap(replacements[i].from) ELSE <<>>])
  IN  getConversionTarget([i \in DOMAIN supported |-> [value |-> supported[i], weight |-> One]],
                          j.preferences)

-----------------------------------------------------------------------------
(* A conversion.  It is begun with the step that follows it and with how   *)
(* often the path is looked for: canHandle looks for it, and so does       *)
(* handle.  A conversion that fails leaves no type.                        *)

Begin(c, from, preferences, container, lookups, then) ==
  /\ job' = [job EXCEPT ![c] = [NoJob EXCEPT
       !.from = from, !.preferences = preferences, !.container = container,
       !.lookups = lookups, !.then = then]]
  /\ Go(c, "convert")

Finish(c, type) ==
  /\ job' = [job EXCEPT ![c].result = type]
  /\ Go(c, job[c].then)

\* The first converter that can handle the representation; the first three
\* only look at the types.
convert(c) ==
  /\ pc[c] = "convert"
  /\ LET j == job[c]
         replacement == getReplacementType(j)
     IN  IF ConstantApplies(j) THEN Finish(c, setup.constant.type)
         ELSE IF matchesMediaPreferences(j.from, j.preferences) THEN Finish(c, j.from)
         ELSE IF replacement # NoMatch THEN Finish(c, replacement.value)
         ELSE Go(c, "findPath") /\ UNCHANGED job
  /\ UNCHANGED cache

\* findPath is done: once more, or the types are known.
Found(c, match, generated) ==
  LET found == [job[c] EXCEPT !.match = match, !.generated = generated, !.lookups = @ - 1]
  IN  IF found.lookups > 0
      THEN job' = [job EXCEPT ![c] = found] /\ Go(c, "findPath")
      ELSE /\ job' = [job EXCEPT ![c] = [found EXCEPT !.result = match.outType]]
           /\ Go(c, job[c].then)

\* ChainedConverter.findPath, up to where it waits for the converters.
findPath(c) ==
  /\ pc[c] = "findPath"
  /\ LET preferences == cleanPreferences(job[c].preferences)
         i == find(job[c].from, preferences)
     IN  IF i = 0
         THEN Go(c, "search") /\ UNCHANGED conversionVars
         ELSE /\ cache' = Append(RemoveAt(cache, i), cache[i])
              /\ Found(c, getMatchedPath(job[c].from, preferences, cache[i]), FALSE)

\* The path that was made is added as the most recently used one.
search(c) ==
  /\ pc[c] = "search"
  /\ LET best == generatePath(job[c].from, cleanPreferences(job[c].preferences))
     IN  IF best = Unmatched
         THEN Finish(c, NoType) /\ UNCHANGED cache
         ELSE cache' = add(best.path) /\ Found(c, best, TRUE)

ConversionInit == cache = <<>> /\ job = [c \in Workload |-> NoJob]

ConversionStep(c) == convert(c) \/ findPath(c) \/ search(c)
=============================================================================
