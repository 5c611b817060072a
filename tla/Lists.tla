------------------------------- MODULE Lists -------------------------------
(***************************************************************************)
(* The lists of dsqgen (list.c): templates, the substitutions and segments *)
(* of a template, the arguments of a function. A list has one place where  *)
(* it is read, pCurrent. While a query is made its substitutions are read  *)
(* from the first to the last, and on the way the evaluation of one looks  *)
(* up others in the same list, or adds one that only a text refers to.     *)
(* Nodes are numbered as they are added; removeItem has no caller. Every   *)
(* list that is not sorted is made to be added to at its tail; the one of  *)
(* segments is set to be added to at its head once its template is parsed. *)
(***************************************************************************)
EXTENDS Integers, Sequences, FiniteSets, Functions

CONSTANTS
  Ranks,      \* what members are compared by
  MaxMembers  \* bound: members of the list

VARIABLES
  sorted,     \* nFlags: L_FL_SORT
  atHead,     \* nFlags: L_FL_HEAD, else L_FL_TAIL
  ranks,      \* pData of every node, as pSortFunc compares it
  pNext, pPrev, \* pNext and pPrev of every node
  head, tail, pCurrent,
  reader,     \* the loop over the list: the nodes it has been given
  found,      \* what the last lookup answered
  front       \* the nodes added while L_FL_HEAD was set (history)

listVars == <<sorted, atHead, ranks, pNext, pPrev, head, tail, pCurrent, reader,
              found, front>>

ASSUME ListsAssumption == Ranks \subseteq Int /\ MaxMembers \in Nat

NULL == 0
Nodes == DOMAIN ranks
NoRank == 0   \* what no pSortFunc compares
IdleReader == [on |-> FALSE, given |-> <<>>, from |-> {}]

-----------------------------------------------------------------------------
\* Where pNext leads, node after node.
Chain ==
  LET from[n \in Nodes \cup {NULL}] ==
        IF n = NULL THEN <<>> ELSE <<n>> \o from[pNext[n]]
  IN  from[head]

\* The place where a loop of getHead and getNext over all members ends up.
Exhausted == IF head = NULL THEN pCurrent ELSE Chain[Len(Chain)]

ListsInit ==
  /\ sorted = FALSE /\ atHead = FALSE /\ front = {}
  /\ ranks = <<>> /\ pNext = <<>> /\ pPrev = <<>>
  /\ head = NULL /\ tail = NULL /\ pCurrent = NULL
  /\ reader = IdleReader /\ found = NULL

-----------------------------------------------------------------------------
\* A list is made for members in the order they come in, or for sorted ones.
makeList ==
  /\ ranks = <<>>
  /\ sorted' \in BOOLEAN /\ atHead' = FALSE
  /\ UNCHANGED <<ranks, pNext, pPrev, head, tail, pCurrent, reader, found, front>>

\* What opens a query is put before what its template gave: the parser sets
\* L_FL_HEAD for it, and L_FL_TAIL again behind it.
setFlags ==
  /\ ~sorted /\ ~reader.on
  /\ atHead' = ~atHead
  /\ UNCHANGED <<sorted, ranks, pNext, pPrev, head, tail, pCurrent, reader, found,
                 front>>

PutFirst(n) ==
  /\ pNext' = Append(pNext, head)
  /\ pPrev' = Append(IF head = NULL THEN pPrev ELSE [pPrev EXCEPT ![head] = n], NULL)
  /\ head' = n
  /\ tail' = IF head = NULL THEN n ELSE tail

PutLast(n) ==
  /\ pNext' = Append([pNext EXCEPT ![tail] = n], NULL)
  /\ pPrev' = Append(pPrev, tail)
  /\ tail' = n
  /\ UNCHANGED head

\* Neither pPrev of the node that follows nor tail is set.
PutAfterHead(n) ==
  /\ pNext' = Append([pNext EXCEPT ![head] = n], pNext[head])
  /\ pPrev' = Append(pPrev, head)
  /\ UNCHANGED <<head, tail>>

\* A sorted list compares with its head only: the loop that looks for the place
\* starts at a node that is less already. Lists are read after they are made,
\* but the one of substitutions is added to while it is read.
addList ==
  /\ Len(ranks) < MaxMembers
  /\ reader.on => sorted
  /\ \E r \in Ranks :
       LET n == Len(ranks) + 1
       IN  /\ ranks' = Append(ranks, IF sorted THEN r ELSE NoRank)
           /\ \/ head = NULL /\ PutFirst(n)
              \/ head # NULL /\ sorted /\ r <= ranks[head] /\ PutFirst(n)
              \/ head # NULL /\ sorted /\ r > ranks[head] /\ PutAfterHead(n)
              \/ head # NULL /\ ~sorted /\ atHead /\ PutFirst(n)
              \/ head # NULL /\ ~sorted /\ ~atHead /\ PutLast(n)
           /\ front' = IF atHead THEN front \cup {n} ELSE front
  /\ UNCHANGED <<sorted, atHead, pCurrent, reader, found>>

\* for (p = getHead(); p; p = getNext())
getHead ==
  /\ ~reader.on /\ head # NULL
  /\ pCurrent' = head
  /\ reader' = [on |-> TRUE, given |-> <<head>>, from |-> Nodes]
  /\ UNCHANGED <<sorted, atHead, ranks, pNext, pPrev, head, tail, found, front>>

getNext ==
  /\ reader.on
  /\ IF pNext[pCurrent] = NULL
     THEN reader' = [reader EXCEPT !.on = FALSE] /\ UNCHANGED pCurrent
     ELSE /\ pCurrent' = pNext[pCurrent]
          /\ reader' = [reader EXCEPT !.given = Append(@, pNext[pCurrent])]
  /\ UNCHANGED <<sorted, atHead, ranks, pNext, pPrev, head, tail, found, front>>

\* The parser looks at the last segment.
getTail ==
  /\ ~reader.on /\ ~sorted /\ tail # NULL
  /\ pCurrent' = tail /\ found' = tail
  /\ UNCHANGED <<sorted, atHead, ranks, pNext, pPrev, head, tail, reader, front>>

\* Mutant: a lookup leaves pCurrent where it stopped.
AfterLookupAtEnd(stopped) == stopped

\* pCurrent after a lookup, which saves it.
AfterLookup(stopped) == pCurrent

findList ==
  /\ sorted
  /\ \E r \in Ranks :
       LET matching == {i \in DOMAIN Chain : ranks[Chain[i]] = r}
           first == CHOOSE i \in matching : \A j \in matching : i <= j
       IN  IF matching = {}
           THEN found' = NULL /\ pCurrent' = AfterLookup(Exhausted)
           ELSE found' = Chain[first] /\ pCurrent' = AfterLookup(Chain[first])
  /\ UNCHANGED <<sorted, atHead, ranks, pNext, pPrev, head, tail, reader, front>>

\* Beyond the last member nothing is found.
getItem ==
  /\ ~sorted
  /\ \E nIndex \in 1 .. MaxMembers + 1 :
       IF nIndex > Len(ranks) THEN found' = NULL /\ UNCHANGED pCurrent
       ELSE found' = Chain[nIndex] /\ pCurrent' = AfterLookup(Chain[nIndex])
  /\ UNCHANGED <<sorted, atHead, ranks, pNext, pPrev, head, tail, reader, front>>

ListsNext ==
  \/ makeList \/ setFlags \/ addList
  \/ getHead \/ getNext \/ getTail \/ findList \/ getItem

ListsSpec == ListsInit /\ [][ListsNext]_listVars

-----------------------------------------------------------------------------
ListsTypeOK ==
  /\ Len(pNext) = Len(ranks) /\ Len(pPrev) = Len(ranks)
  /\ {head, tail, pCurrent, found} \subseteq Nodes \cup {NULL}
  /\ front \subseteq Nodes

\* A list that is not sorted has node m before node n: the last one added at the
\* head comes first, the last one added at the tail comes last.
Before(m, n) ==
  IF m \in front THEN n \in front => n < m ELSE n \notin front /\ m < n

\* Whoever reads a list is given each member that was in it once, whatever is
\* looked up or added on the way (query_handler.c: GenerateQuery; eval.c:
\* EvalExpr; list.c: findList, getItem). And a list that is not sorted has what
\* was added at its head first, the last of it foremost, and then the rest as it
\* was added, its links backwards and its tail with it: the two segments of
\* QgenMain.c: parseTemplate open the query.
ReadersSeeEveryMember ==
  LET members == Chain IN
  /\ Range(members) = Nodes /\ IsInjective(members)
  /\ IsInjective(reader.given)
  /\ ~reader.on /\ reader.given # <<>> => reader.from \subseteq Range(reader.given)
  /\ ~sorted =>
       /\ \A i, j \in DOMAIN members : i < j => Before(members[i], members[j])
       /\ \A i \in DOMAIN members :
            pPrev[members[i]] = IF i = 1 THEN NULL ELSE members[i - 1]
       /\ tail = IF head = NULL THEN NULL ELSE members[Len(members)]
=============================================================================
