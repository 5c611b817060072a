---------------------------- MODULE QueryStreams ----------------------------
(***************************************************************************)
(* dsqgen (QgenMain.c, query_handler.c, substitution.c, eval.c, expr.c,    *)
(* list.c, permute.c).  Templates are parsed once; then every stream runs  *)
(* all of them, in an order of its own.  A query gives each substitution   *)
(* of its template a value and prints its segments.  Substitutions keep    *)
(* their values between queries: a value is stamped with the number of the *)
(* query it is for.                                                        *)
(***************************************************************************)
EXTENDS QueryValues

CONSTANTS
  Dialect,       \* definitions of the dialect's template
  Templates,     \* the templates: definitions, and the references of the text
  NameRank,      \* the alphabetical order of names, ignoring case
  Members,       \* what DISTMEMBER answers for a row
  StreamCount,   \* STREAMS
  Versions,      \* COUNT
  Qualify,       \* is_set("QUALIFY")
  MaxPicks       \* picks a query takes at most

VARIABLES
  parsed,        \* TemplateList: substitutions and segments
  stream, place, version,   \* the loops of generateQueryStreams
  shuffle,       \* what stream 1 of random numbers draws, the same every time
  permutation,   \* pPermutation
  queryCount,    \* nQueryCount
  values,        \* arValues of each substitution, and its nQueryNumber
  orders,        \* permutation of each ULIST
  ran,           \* templates of the current stream's file
  shown          \* the references printed by the last query

queryVars == <<parsed, stream, place, version, shuffle, permutation, queryCount,
               values, orders, ran, shown>>

\* The keyword of the query's number: a substitution of the global template, 0.
Keyword == [of |-> 0, name |-> "_QUERY", kind |-> "keyword", parts |-> 1]

-----------------------------------------------------------------------------
(***************************************************************************)
(* Parsing.  A sorted list puts what is not less than its head right after *)
(* the head, so that later definitions come before earlier ones.           *)
(***************************************************************************)
AddList(list, sub) ==
  IF list = <<>> \/ NameRank[sub.name] <= NameRank[list[1].name]
  THEN <<sub>> \o list
  ELSE <<list[1], sub>> \o Tail(list)

\* findSubstitution: a global substitution is added to the template's list.
FindSubstitution(list, name) ==
  IF \E i \in DOMAIN list : list[i].name = name THEN list
  ELSE IF name = Keyword.name THEN AddList(list, Keyword)
  ELSE list

Named(list, name) == SelectSeq(list, LAMBDA sub : sub.name = name)[1]

References(definition) == IF "ref" \in DOMAIN definition THEN <<definition.ref>> ELSE <<>>

DefineSubstitution(list, definition, t) ==
  AddList(FoldLeft(FindSubstitution, list, References(definition)),
          definition @@ [of |-> t])

\* The dialect's template is read before the template itself; the segment of
\* _BEGIN is put in front and the one of _END at the end.
ParseTemplate ==
  LET t == Len(parsed) + 1
      defined == FoldLeft(LAMBDA list, d : DefineSubstitution(list, d, t), <<>>,
                          Dialect \o Templates[t].defines)
      text == <<[name |-> "_BEGIN", element |-> 1]>> \o Templates[t].text
                \o <<[name |-> "_END", element |-> 1]>>
      names == [i \in DOMAIN text |-> text[i].name] IN
  /\ stream = -1 /\ t <= Len(Templates)
  /\ parsed' = Append(parsed, [subs |-> FoldLeft(FindSubstitution, defined, names),
                               segments |-> text])
  /\ UNCHANGED <<stream, place, version, shuffle, permutation, queryCount, values,
                 orders, ran, shown>>

-----------------------------------------------------------------------------
\* The seed of stream 1 is set again for every stream of queries, but the
\* permutation of the stream before is what gets permuted.
StartStream ==
  /\ Len(parsed) = Len(Templates) /\ stream + 1 < StreamCount
  /\ stream = -1 \/ place > Len(Templates)
  /\ IF stream = -1 THEN shuffle' \in [DOMAIN Templates -> DOMAIN Templates]
     ELSE UNCHANGED shuffle
  /\ permutation' = MakePermutation(permutation, shuffle')
  /\ stream' = stream + 1 /\ place' = 1 /\ version' = 1
  /\ ran' = <<>>
  /\ UNCHANGED <<parsed, queryCount, values, orders, shown>>

-----------------------------------------------------------------------------
(***************************************************************************)
(* Values.  The world is what evaluation changes: the values, the orders   *)
(* of the ULISTs and the picks left of those the query takes.              *)
(***************************************************************************)
Key(sub) == <<sub.of, sub.name>>

NoPart == [useInt |-> FALSE, number |-> 0, text |-> <<>>]
Fresh(sub) == [query |-> 0, asked |-> 0, parts |-> [i \in 1 .. sub.parts |-> NoPart]]

IntPart(part, n) == [part EXCEPT !.useInt = TRUE, !.number = n]
AddText(part, piece) == [part EXCEPT !.text = Append(@, piece)]

\* EvalTextExpr picks the first text whose weights add up to the level.
TextAt(choices, level) ==
  CHOOSE i \in DOMAIN choices :
    /\ level <= FoldLeft(LAMBDA s, c : s + c.weight, 0, SubSeq(choices, 1, i))
    /\ level > FoldLeft(LAMBDA s, c : s + c.weight, 0, SubSeq(choices, 1, i - 1))

RandomValue(sub, parts, pick) ==
  <<IntPart(parts[1], sub.min + (pick % (sub.max - sub.min + 1)))>>

\* Unique numbers of a range that begins with 1.
PermutedValues(sub, parts, order) ==
  [i \in DOMAIN parts |-> IntPart(parts[i], (order[i] % sub.size) + 1)]

DateValue(sub, parts, year, pick) ==
  <<AddText(parts[1], GenrandDate(MkDate(year, sub.from[1], sub.from[2]),
                                  MkDate(year, sub.to[1], sub.to[2]), pick))>>

MemberValue(parts, row) == <<AddText(parts[1], Members[row])>>

TextValue(sub, parts, pick) ==
  LET total == FoldLeft(LAMBDA s, c : s + c.weight, 0, sub.choices) IN
  <<AddText(parts[1], sub.choices[TextAt(sub.choices, 1 + (pick % total))].text)>>

\* What a function gives the parts of its substitution; arg is the number its
\* reference has, order that of a ULIST.
Drawn(sub, parts, arg, pick, order) ==
  CASE sub.kind = "random" -> RandomValue(sub, parts, pick)
    [] sub.kind = "ulist"  -> PermutedValues(sub, parts, order)
    [] sub.kind = "date"   -> DateValue(sub, parts, arg, pick)
    [] sub.kind = "member" -> MemberValue(parts, arg)
    [] sub.kind = "text"   -> TextValue(sub, parts, pick)

\* EvalExpr for an assignment, in a world w and query n.  A constant text is
\* added to what is there; a function is called once a query; a reference
\* evaluates what it refers to unless a reference already did.
RECURSIVE EvalExpr(_, _, _, _)
EvalExpr(w, subs, sub, n) ==
  LET k == Key(sub)
      own == w.values[k]
      Set(u, parts) == [u EXCEPT !.values[k].parts = parts, !.values[k].query = n] IN
  CASE sub.kind = "constant" -> Set(w, <<AddText(own.parts[1], sub.text)>>)
    [] sub.kind = "keyword" -> Set(w, <<IntPart(own.parts[1], place)>>)
    [] sub.kind \notin {"constant", "keyword"} /\ own.query = n -> w
    [] OTHER ->
         LET refers == "ref" \in DOMAIN sub
             other == Named(subs, sub.ref)
             asked == IF refers /\ w.values[Key(other)].asked # n
                      THEN EvalExpr(w, subs, other, n) ELSE w
             u == IF refers THEN [asked EXCEPT !.values[Key(other)].asked = n] ELSE asked
             arg == IF refers THEN u.values[Key(other)].parts[sub.element].number ELSE 0
             takes == sub.kind # "member"
             drawn == [i \in 1 .. (IF sub.kind = "ulist" THEN sub.size ELSE 0) |->
                         ((w.picks[1] + i) % sub.size) + 1]
             order == IF sub.kind = "ulist" THEN MakePermutation(u.orders[k], drawn) ELSE <<>>
             set == Set(u, Drawn(sub, own.parts, arg, u.picks[1], order)) IN
         [set EXCEPT !.picks = IF takes THEN Tail(@) ELSE @,
                     !.orders = IF sub.kind = "ulist" THEN [@ EXCEPT ![k] = order] ELSE @]

\* Mutant: the buffers are not emptied.
EvalInOrderKept(w, subs, n) ==
  FoldLeft(LAMBDA u, sub : EvalExpr(u, subs, sub, n), w, subs)

\* Each substitution in the order of the list: its buffers are emptied, then it
\* is evaluated.
EvalInOrder(w, subs, n) ==
  FoldLeft(LAMBDA u, sub :
             EvalExpr([u EXCEPT !.values[Key(sub)].parts =
                         [i \in DOMAIN @ |-> [@[i] EXCEPT !.text = <<>>]]], subs, sub, n),
           w, subs)

\* The values a template's substitutions start with, the first time it is used.
Initialised(t) ==
  LET subs == ToSet(parsed[t].subs)
      keys == {Key(sub) : sub \in subs} IN
  IF \A sub \in subs : sub.of = t => Key(sub) \in DOMAIN values
  THEN [values |-> values, orders |-> orders]
  ELSE [values |-> [k \in keys |-> Fresh(CHOOSE sub \in subs : Key(sub) = k)] @@ values,
        orders |-> [k \in keys |-> <<>>] @@ orders]

GenerateQuery(t) ==
  \E picks \in [1 .. MaxPicks -> 0 .. 2] :
    LET subs == parsed[t].subs
        w == EvalInOrder(Initialised(t) @@ [picks |-> picks], subs, queryCount) IN
    /\ values' = w.values /\ orders' = w.orders
    /\ shown' = [template |-> t, segments |->
         [i \in DOMAIN parsed[t].segments |->
            LET s == parsed[t].segments[i]
                part == w.values[Key(Named(subs, s.name))].parts[s.element] IN
            s @@ [part |-> part]]]
    /\ queryCount' = queryCount + 1

NextQuery ==
  LET t == IF Qualify THEN place ELSE permutation[place] IN
  /\ stream >= 0 /\ place <= Len(Templates)
  /\ GenerateQuery(t)
  /\ ran' = Append(ran, t)
  /\ IF version < Versions
     THEN version' = version + 1 /\ UNCHANGED place
     ELSE version' = 1 /\ place' = place + 1
  /\ UNCHANGED <<parsed, stream, shuffle, permutation>>

QueriesInit ==
  /\ parsed = <<>> /\ stream = -1 /\ place = 1 /\ version = 1
  /\ shuffle = <<>> /\ permutation = <<>>
  /\ queryCount = 1 /\ values = <<>> /\ orders = <<>>
  /\ ran = <<>> /\ shown = [template |-> 0, segments |-> <<>>]

QueriesNext == ParseTemplate \/ StartStream \/ NextQuery

-----------------------------------------------------------------------------
\* A stream's file has every template COUNT times, whatever orders the streams
\* before it had, and in the order of the list when queries are to qualify
\* (QgenMain.c: generateQueryStreams, permute.c: makePermutation).
EveryTemplateInEveryStream ==
  stream >= 0 /\ place > Len(Templates) =>
    /\ \A t \in DOMAIN Templates :
         Len(SelectSeq(ran, LAMBDA r : r = t)) = Versions
    /\ Qualify => \A i, j \in DOMAIN ran : i <= j => ran[i] <= ran[j]

Of(name) ==
  LET at == {i \in DOMAIN shown.segments : shown.segments[i].name = name} IN
  [e \in {shown.segments[i].element : i \in at} |->
     shown.segments[CHOOSE i \in at : shown.segments[i].element = e].part]

\* One query shows one value of each substitution: nothing is blank or doubled,
\* a value computed from another one is computed from the one that is shown,
\* however the list orders the two, and a ULIST has no value twice; dates are
\* within the range that was asked for (query_handler.c: GenerateQuery, eval.c:
\* EvalExpr, genrand.c: genrand_date).
QueryAgrees ==
  shown.template # 0 =>
  LET subs == parsed[shown.template].subs
      names == {shown.segments[i].name : i \in DOMAIN shown.segments} IN
  /\ \A i \in DOMAIN shown.segments :
       LET part == shown.segments[i].part IN
       Len(part.text) = IF part.useInt THEN 0 ELSE 1
  /\ \A name \in names :
       LET sub == Named(subs, name) IN
       /\ sub.kind = "date" =>
            LET d == Of(name)[1].text[1]
                year == Of(sub.ref)[1].number IN
            d \in DateToJulian(year, sub.from[1], sub.from[2])
                    .. DateToJulian(year, sub.to[1], sub.to[2])
       /\ sub.kind = "member" => Of(name)[1].text[1] = Members[Of(sub.ref)[sub.element].number]
       /\ sub.kind = "ulist" =>
            \A i, j \in DOMAIN Of(name) : i # j => Of(name)[i].number # Of(name)[j].number
=============================================================================
