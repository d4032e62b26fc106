-------------------------- MODULE AdminSite_proofs --------------------------
(***************************************************************************)
(* Proofs about the lists that the administration front end keeps, for any *)
(* lists, saves, filters and numbers of pages: what the cache shows tells  *)
(* of every save that has returned, and a pager stays within its list.     *)
(***************************************************************************)
EXTENDS AdminSite, TLAPS

-----------------------------------------------------------------------------
(* The lists of tasks                                                      *)

Returned == {s \in Save : save[s] = "returned"}

EntryType == [has : BOOLEAN, data : SUBSET Save, fresh : BOOLEAN,
              load : {"no", "asked", "read"}, carried : SUBSET Save]

ListsTyped ==
  /\ onScreen \in List
  /\ cache \in [List -> EntryType]
  /\ save \in [Save -> {"no", "sent", "applied", "returned"}]
  /\ missed \in SUBSET List

\* The strengthening that is inductive.  What a load of a list that has missed nothing brings
\* tells of every save that has returned; and so does what the list has already, when no load
\* is under way and the answer is good or on the screen.
UpToDate(l) ==
  l \notin missed =>
    /\ cache[l].load = "read" => Returned \subseteq cache[l].carried
    /\ cache[l].has /\ cache[l].load = "no" /\ (cache[l].fresh \/ l = onScreen) =>
         Returned \subseteq cache[l].data

ListsInv == ListsTyped /\ \A l \in List : UpToDate(l)

\* The first load of a list is an entry; a list that is asked for again, and one whose answer
\* is no longer good, stay entries.
LEMMA EntryTypes ==
  /\ Entry \in EntryType
  /\ \A e \in EntryType :
       /\ Loading(e) \in EntryType /\ Loading(e).load = "asked"
       /\ [e EXCEPT !.fresh = FALSE] \in EntryType
BY DEF Entry, EntryType, Loading

\* A list that comes on the screen is asked for, or its answer is good or on its way.
LEMMA ShowKeeps ==
  ASSUME ListsInv, NEW l \in List, Show(l)
  PROVE  ListsInv'
<1>1. /\ cache[l] \in EntryType /\ save' = save /\ onScreen' = l
      /\ cache' = [cache EXCEPT ![l] = Watched(l)]
  BY DEF ListsInv, ListsTyped, Show
<1>2. Watched(l) \in EntryType
  BY <1>1, EntryTypes DEF Watched
<1>3. ListsTyped'
  BY <1>1, <1>2 DEF ListsInv, ListsTyped, Show
<1>4. cache'[l] = Watched(l) /\ \A k \in List : k # l => cache'[k] = cache[k]
  BY <1>1, <1>2 DEF ListsInv, ListsTyped
<1>5. ASSUME NEW k \in List, k # l
      PROVE  UpToDate(k)'
  <2>1. k \notin missed' => k \notin missed
    BY <1>5 DEF Show
  <2>q. QED BY <1>1, <1>4, <1>5, <2>1 DEF ListsInv, UpToDate, Returned
<1>6. UpToDate(l)'
  <2>1. CASE Needed(cache[l])
    <3>1. cache'[l].load = "asked"
      BY <1>1, <1>4, <2>1, EntryTypes DEF Watched
    <3>q. QED BY <3>1 DEF UpToDate
  <2>2. CASE ~Needed(cache[l])
    <3>1. cache'[l] = cache[l] /\ missed' = missed
      BY <1>4, <2>2 DEF Watched, Show
    <3>q. QED BY <1>1, <2>2, <3>1 DEF Needed, ListsInv, UpToDate, Returned
  <2>q. QED BY <2>1, <2>2
<1>q. QED BY <1>3, <1>5, <1>6 DEF ListsInv

\* A save that returns has the list on the screen loaded again; every other one loses its
\* good answer, or is counted as one that has missed the save.
LEMMA SavedKeeps ==
  ASSUME ListsInv, NEW s \in Save, TaskSaved(s)
  PROVE  ListsInv'
<1>1. /\ save' = [save EXCEPT ![s] = "returned"]
      /\ onScreen' = onScreen
      /\ missed' = {l \in List : Overtaken(l) \/ (l \in missed /\ l # onScreen)}
      /\ cache' = [l \in List |-> Invalidated(l)]
  BY DEF TaskSaved
<1>2. ASSUME NEW l \in List
      PROVE  Invalidated(l) \in EntryType
  <2>1. cache[l] \in EntryType
    BY DEF ListsInv, ListsTyped
  <2>q. QED BY <2>1, EntryTypes DEF Invalidated
<1>3. ListsTyped'
  BY <1>1, <1>2 DEF ListsInv, ListsTyped
<1>4. ASSUME NEW l \in List
      PROVE  UpToDate(l)'
  <2> DEFINE entry == [cache[l] EXCEPT !.fresh = FALSE]
  <2>1. cache[l] \in EntryType /\ cache'[l] = Invalidated(l)
    BY <1>1, <1>4 DEF ListsInv, ListsTyped
  <2>2. /\ entry.has = cache[l].has /\ entry.load = cache[l].load /\ entry.fresh = FALSE
        /\ Loading(entry).load = "asked"
    BY <2>1, EntryTypes DEF EntryType
  <2> HIDE DEF entry
  <2>3. cache'[l] = IF l = onScreen /\ (entry.has \/ entry.load = "no") THEN Loading(entry)
                    ELSE entry
    BY <2>1 DEF Invalidated, entry
  <2>4. CASE l = onScreen /\ (entry.has \/ entry.load = "no")
    BY <2>2, <2>3, <2>4 DEF UpToDate
  <2>5. CASE ~(l = onScreen /\ (entry.has \/ entry.load = "no"))
    <3>1. cache'[l] = entry
      BY <2>3, <2>5
    <3>2. CASE cache[l].load = "no"
      BY <1>1, <2>2, <2>5, <3>1, <3>2 DEF UpToDate
    <3>3. CASE cache[l].load # "no"
      <4>1. l \in missed'
        BY <1>1, <2>2, <2>5, <3>3 DEF Overtaken
      <4>q. QED BY <4>1 DEF UpToDate
    <3>q. QED BY <3>2, <3>3
  <2>q. QED BY <2>4, <2>5
<1>q. QED BY <1>3, <1>4 DEF ListsInv

\* Every step of the lists keeps them up to date.
LEMMA ListsStep == ListsInv /\ ListsNext => ListsInv'
<1> SUFFICES ASSUME ListsInv, ListsNext PROVE ListsInv'
  OBVIOUS
<1>1. ASSUME NEW s \in Save, SubmitTask(s) \/ ApplyTask(s)
      PROVE  ListsInv'
  <2>1. Returned' = Returned
    BY <1>1 DEF SubmitTask, ApplyTask, Returned, ListsInv, ListsTyped
  <2>2. ListsTyped'
    BY <1>1 DEF SubmitTask, ApplyTask, ListsInv, ListsTyped
  <2>q. QED BY <1>1, <2>1, <2>2 DEF SubmitTask, ApplyTask, ListsInv, UpToDate
<1>2. ASSUME NEW l \in List, NEW e \in EntryType, cache' = [cache EXCEPT ![l] = e],
             onScreen' = onScreen, save' = save,
             \/ missed' = missed /\ UpToDate(l)'
             \/ missed' = missed \cup {l}
      PROVE  ListsInv'
  <2>1. ListsTyped'
    BY <1>2 DEF ListsInv, ListsTyped
  <2>2. cache'[l] = e /\ \A k \in List : k # l => cache'[k] = cache[k]
    BY <1>2 DEF ListsInv, ListsTyped
  <2>3. \A k \in List : k # l => UpToDate(k)'
    BY <1>2, <2>2 DEF ListsInv, UpToDate, Returned
  <2>4. UpToDate(l)'
    BY <1>2 DEF UpToDate
  <2>q. QED BY <2>1, <2>3, <2>4 DEF ListsInv
<1>3. ASSUME NEW l \in List
      PROVE  cache[l] \in EntryType
  BY DEF ListsInv, ListsTyped
<1>4. ASSUME NEW l \in List, ReadList(l)
      PROVE  ListsInv'
  <2> DEFINE carried == {s \in Save : save[s] \in {"applied", "returned"}}
             e == [cache[l] EXCEPT !.load = "read", !.carried = carried]
  <2>1. e \in EntryType /\ e.load = "read" /\ e.carried = carried
    BY <1>3 DEF EntryType
  <2>2. cache' = [cache EXCEPT ![l] = e]
    BY <1>4 DEF ReadList
  <2>3. onScreen' = onScreen /\ save' = save /\ missed' = missed
    BY <1>4 DEF ReadList
  <2>4. Returned' \subseteq carried
    BY <2>3 DEF Returned
  <2> HIDE DEF e, carried
  <2>5. cache'[l].load = "read" /\ cache'[l].carried = carried
    BY <2>1, <2>2 DEF ListsInv, ListsTyped
  <2>6. UpToDate(l)'
    BY <2>4, <2>5 DEF UpToDate
  <2>q. QED BY <1>2, <2>1, <2>2, <2>3, <2>6
<1>5. ASSUME NEW l \in List, ListArrives(l)
      PROVE  ListsInv'
  <2> DEFINE e == [has |-> TRUE, data |-> cache[l].carried, fresh |-> TRUE, load |-> "no",
                   carried |-> {}]
  <2>1. e \in EntryType /\ e.load = "no" /\ e.data = cache[l].carried
    BY <1>3 DEF EntryType
  <2>2. cache' = [cache EXCEPT ![l] = e] /\ cache[l].load = "read"
    BY <1>5 DEF ListArrives
  <2>3. onScreen' = onScreen /\ save' = save /\ missed' = missed
    BY <1>5 DEF ListArrives
  <2> HIDE DEF e
  <2>4. UpToDate(l)'
    BY <2>1, <2>2, <2>3 DEF ListsInv, ListsTyped, UpToDate, Returned
  <2>q. QED BY <1>2, <2>1, <2>2, <2>3, <2>4
<1>6. ASSUME NEW l \in List, LoadFails(l)
      PROVE  ListsInv'
  <2> DEFINE e == [cache[l] EXCEPT !.load = "no", !.carried = {}]
  <2>1. e \in EntryType
    BY <1>3 DEF EntryType
  <2>2. cache' = [cache EXCEPT ![l] = e]
    BY <1>6 DEF LoadFails
  <2>3. onScreen' = onScreen /\ save' = save /\ missed' = missed \cup {l}
    BY <1>6 DEF LoadFails
  <2> HIDE DEF e
  <2>q. QED BY <1>2, <2>1, <2>2, <2>3
<1>7. ASSUME NEW l \in List, Ages(l)
      PROVE  ListsInv'
  <2> DEFINE e == [cache[l] EXCEPT !.fresh = FALSE]
  <2>1. /\ e \in EntryType /\ e.has = cache[l].has /\ e.load = cache[l].load
        /\ e.data = cache[l].data /\ e.carried = cache[l].carried /\ e.fresh = FALSE
    BY <1>3 DEF EntryType
  <2>2. cache' = [cache EXCEPT ![l] = e]
    BY <1>7 DEF Ages
  <2>3. onScreen' = onScreen /\ save' = save /\ missed' = missed
    BY <1>7 DEF Ages
  <2> HIDE DEF e
  <2>4. UpToDate(l)'
    BY <2>1, <2>2, <2>3 DEF ListsInv, ListsTyped, UpToDate, Returned
  <2>q. QED BY <1>2, <2>1, <2>2, <2>3, <2>4
<1>q. QED BY <1>1, <1>4, <1>5, <1>6, <1>7, ShowKeeps, SavedKeeps DEF ListsNext

\* The list of tasks on the screen tells of every save whose answer has reached the page, for
\* any lists and any saves under way together (useQuery and invalidateQueries of the tasks
\* page).
THEOREM ListIsCurrent == Spec => []ShownIsCurrent
<1>1. Init => ListsInv
  <2> SUFFICES ASSUME Init PROVE ListsInv
    OBVIOUS
  <2>1. onScreen \in List /\ missed = {} /\ save = [s \in Save |-> "no"]
    BY ListsAssumption DEF Init, ListsInit
  <2>2. \A l \in List : cache[l] \in {Entry, Loading(Entry)}
    BY DEF Init, ListsInit
  <2>3. cache \in [List -> EntryType]
    BY EntryTypes DEF Init, ListsInit
  <2>4. Returned = {}
    BY <2>1 DEF Returned
  <2>q. QED BY <2>1, <2>3, <2>4 DEF ListsInv, ListsTyped, UpToDate
<1>2. ListsInv /\ [Next]_vars => ListsInv'
  <2> SUFFICES ASSUME ListsInv, [Next]_vars PROVE ListsInv'
    OBVIOUS
  <2>1. CASE ListsNext
    BY <2>1, ListsStep
  <2>2. CASE UNCHANGED listVars
    BY <2>2 DEF listVars, ListsInv, ListsTyped, UpToDate, Returned
  <2>q. QED BY <2>1, <2>2 DEF Next, vars
<1>3. ListsInv => ShownIsCurrent
  BY DEF ListsInv, ListsTyped, UpToDate, ShownIsCurrent, Returned
<1>q. QED BY <1>1, <1>2, <1>3, PTL DEF Spec

-----------------------------------------------------------------------------
(* The pager                                                               *)

PagerType == [page : Int, filter : Filter, awaited : BOOLEAN,
              meta : [totalPages : Nat, hasNextPage : BOOLEAN, hasPrevPage : BOOLEAN]]

PagerTyped ==
  /\ pager \in PagerType
  /\ pages \in [Filter -> 0 .. MaxPages]

\* The strengthening that is inductive: the page asked for exists also while it is awaited,
\* and the last answer was given for it when the list had no more pages than it has now.
PagerInv ==
  /\ PagerTyped
  /\ ~hasty /\ ~shrunk =>
       /\ pager.page \in 1 .. AtLeastOne(pages[pager.filter])
       /\ ~pager.awaited =>
            \E t \in 0 .. pages[pager.filter] : pager.meta = Paginated(pager.page, t)

\* A pager that asks for a page, and one that gets its answer, is a pager.
LEMMA PagerTypes ==
  ASSUME NEW p \in PagerType
  PROVE  /\ \A f \in Filter, n \in Int :
              [p EXCEPT !.filter = f, !.page = n, !.awaited = TRUE] \in PagerType
         /\ \A n \in Int : [p EXCEPT !.page = n, !.awaited = TRUE] \in PagerType
         /\ \A t \in Nat : [p EXCEPT !.awaited = FALSE, !.meta = Paginated(p.page, t)]
                             \in PagerType
<1>1. \A t \in Nat : Paginated(p.page, t) \in
                       [totalPages : Nat, hasNextPage : BOOLEAN, hasPrevPage : BOOLEAN]
  BY DEF Paginated
<1>2. \A t \in Nat : [p EXCEPT !.awaited = FALSE, !.meta = Paginated(p.page, t)] \in PagerType
  BY <1>1 DEF PagerType
<1>3. \A f \in Filter, n \in Int :
        [p EXCEPT !.filter = f, !.page = n, !.awaited = TRUE] \in PagerType
  BY DEF PagerType
<1>4. \A n \in Int : [p EXCEPT !.page = n, !.awaited = TRUE] \in PagerType
  BY DEF PagerType
<1>q. QED BY <1>2, <1>3, <1>4

\* A page that has a next one, or a previous one, is followed or preceded by a page.
LEMMA Neighbours ==
  ASSUME NEW p \in Int, NEW n \in Nat, NEW t \in 0 .. n, p \in 1 .. AtLeastOne(n)
  PROVE  /\ Paginated(p, t).hasNextPage => p + 1 \in 1 .. AtLeastOne(n)
         /\ Paginated(p, t).hasPrevPage => p - 1 \in 1 .. AtLeastOne(n)
<1>1. AtLeastOne(p) = p /\ p <= AtLeastOne(n)
  BY DEF AtLeastOne
<1>2. (Paginated(p, t).hasNextPage <=> p < t) /\ (Paginated(p, t).hasPrevPage <=> p > 1)
  BY <1>1 DEF Paginated
<1>3. p < t => p + 1 <= AtLeastOne(n)
  BY DEF AtLeastOne
<1>4. AtLeastOne(n) \in Nat
  BY DEF AtLeastOne
<1>q. QED BY <1>1, <1>2, <1>3, <1>4

\* Every step of the pager keeps it within its list.
LEMMA PagerStep == PagerInv /\ PagerNext => PagerInv'
<1> SUFFICES ASSUME PagerInv, PagerNext PROVE PagerInv'
  OBVIOUS
<1> USE ListsAssumption
<1>0. pages[pager.filter] \in 0 .. MaxPages
  BY DEF PagerInv, PagerTyped, PagerType
<1>1. ASSUME NEW f \in Filter, Choose(f)
      PROVE  PagerInv'
  <2>1. /\ pager'.page = 1 /\ pager'.filter = f /\ pager'.awaited = TRUE
        /\ pager'.meta = pager.meta /\ pages' = pages
    BY <1>1 DEF Choose, PagerInv, PagerTyped, PagerType
  <2>2. PagerTyped'
    <3>1. PICK n \in Int : n = 1
      OBVIOUS
    <3>2. pager' = [pager EXCEPT !.filter = f, !.page = n, !.awaited = TRUE]
      BY <1>1, <3>1 DEF Choose
    <3>3. pager \in PagerType
      BY DEF PagerInv, PagerTyped
    <3>4. [pager EXCEPT !.filter = f, !.page = n, !.awaited = TRUE] \in PagerType
      BY <3>3, PagerTypes
    <3>q. QED BY <2>1, <3>2, <3>4 DEF PagerInv, PagerTyped
  <2>3. 1 \in 1 .. AtLeastOne(pages[f])
    BY DEF AtLeastOne, PagerInv, PagerTyped
  <2>q. QED BY <2>1, <2>2, <2>3 DEF PagerInv
<1>2. ASSUME NEW step \in {-1, 1}, Turn(step)
      PROVE  PagerInv'
  <2>1. /\ pager'.page = pager.page + step /\ pager'.filter = pager.filter
        /\ pager'.awaited = TRUE /\ pager'.meta = pager.meta /\ pages' = pages
    BY <1>2 DEF Turn, PagerInv, PagerTyped, PagerType
  <2>2. PagerTyped'
    <3>1. pager.page + step \in Int
      BY DEF PagerInv, PagerTyped, PagerType
    <3>2. pager' = [pager EXCEPT !.page = pager.page + step, !.awaited = TRUE]
      BY <1>2 DEF Turn
    <3>q. QED BY <2>1, <3>1, <3>2, PagerTypes DEF PagerInv, PagerTyped
  <2>3. ASSUME ~hasty', ~shrunk'
        PROVE  pager.page + step \in 1 .. AtLeastOne(pages[pager.filter])
    <3>1. ~hasty /\ ~shrunk /\ ~pager.awaited
      BY <1>2, <2>3 DEF Turn
    <3>2. PICK t \in 0 .. pages[pager.filter] : pager.meta = Paginated(pager.page, t)
      BY <3>1 DEF PagerInv
    <3>3. pager.page \in 1 .. AtLeastOne(pages[pager.filter]) /\ pager.page \in Int
      BY <3>1 DEF PagerInv, PagerTyped, PagerType
    <3>4. IF step = 1 THEN Paginated(pager.page, t).hasNextPage
                      ELSE Paginated(pager.page, t).hasPrevPage
      BY <1>2, <3>2 DEF Turn
    <3>q. QED BY <1>0, <3>3, <3>4, Neighbours
  <2>q. QED BY <2>1, <2>2, <2>3 DEF PagerInv
<1>3. CASE PageArrives
  <2>1. /\ pager'.page = pager.page /\ pager'.filter = pager.filter
        /\ pager'.awaited = FALSE /\ pages' = pages /\ hasty' = hasty /\ shrunk' = shrunk
        /\ pager'.meta = Paginated(pager.page, pages[pager.filter])
    BY <1>3 DEF PageArrives, PagerInv, PagerTyped, PagerType
  <2>2. PagerTyped'
    <3>1. pages[pager.filter] \in Nat
      BY <1>0
    <3>q. QED BY <1>3, <3>1, PagerTypes DEF PageArrives, PagerInv, PagerTyped
  <2>q. QED BY <1>0, <2>1, <2>2 DEF PagerInv
<1>4. ASSUME NEW f \in Filter, NEW n \in 0 .. MaxPages, PagesChange(f, n)
      PROVE  PagerInv'
  <2>1. /\ pager' = pager /\ hasty' = hasty /\ shrunk' = (shrunk \/ n < pages[f])
        /\ pages' = [pages EXCEPT ![f] = n]
    BY <1>4 DEF PagesChange
  <2>2. PagerTyped'
    BY <2>1 DEF PagerInv, PagerTyped
  <2>3. ASSUME ~shrunk'
        PROVE  pages[pager.filter] <= pages'[pager.filter] /\ pages'[pager.filter] \in Nat
    <3>1. pages \in [Filter -> 0 .. MaxPages] /\ pager.filter \in Filter
      BY DEF PagerInv, PagerTyped, PagerType
    <3>2. ~(n < pages[f])
      BY <2>1, <2>3
    <3>q. QED BY <2>1, <3>1, <3>2
  <2>4. ASSUME ~hasty', ~shrunk'
        PROVE  /\ pager.page \in 1 .. AtLeastOne(pages'[pager.filter])
               /\ ~pager.awaited =>
                    \E t \in 0 .. pages'[pager.filter] : pager.meta = Paginated(pager.page, t)
    <3>1. /\ pager.page \in 1 .. AtLeastOne(pages[pager.filter])
          /\ ~pager.awaited =>
               \E t \in 0 .. pages[pager.filter] : pager.meta = Paginated(pager.page, t)
      BY <2>1, <2>4 DEF PagerInv
    <3>2. AtLeastOne(pages[pager.filter]) <= AtLeastOne(pages'[pager.filter])
      BY <1>0, <2>3, <2>4 DEF AtLeastOne
    <3>3. AtLeastOne(pages[pager.filter]) \in Nat /\ AtLeastOne(pages'[pager.filter]) \in Nat
      BY <1>0, <2>3, <2>4 DEF AtLeastOne
    <3>q. QED BY <1>0, <2>3, <2>4, <3>1, <3>2, <3>3
  <2>q. QED BY <2>1, <2>2, <2>4 DEF PagerInv
<1>q. QED BY <1>1, <1>2, <1>3, <1>4 DEF PagerNext

\* The page that a pager shows exists, for any filters and numbers of pages, as long as nobody
\* clicks while an answer is awaited and no list loses pages (setPage(1) with every filter, and
\* buttons that follow the answer to the page that is shown).
THEOREM PageStaysInList == Spec => []PageExists
<1>1. Init => PagerInv
  <2> SUFFICES ASSUME Init PROVE PagerInv
    OBVIOUS
  <2>1. PICK f \in Filter : pager = [page |-> 1, filter |-> f, awaited |-> TRUE, meta |-> NoAnswer]
    BY ListsAssumption DEF Init, PagerInit
  <2>2. pages \in [Filter -> 0 .. MaxPages]
    <3>1. CASE tour = "pager"
      BY <3>1 DEF Init, PagerInit
    <3>2. CASE tour # "pager"
      BY <3>2, ListsAssumption DEF Init
    <3>q. QED BY <3>1, <3>2
  <2>3. pager.page = 1 /\ pager.awaited = TRUE /\ pager.filter = f
    BY <2>1
  <2>4. PagerTyped
    BY <2>1, <2>2 DEF PagerTyped, PagerType, NoAnswer
  <2>5. 1 \in 1 .. AtLeastOne(pages[f])
    BY <2>2, ListsAssumption DEF AtLeastOne
  <2>q. QED BY <2>3, <2>4, <2>5 DEF PagerInv
<1>2. PagerInv /\ [Next]_vars => PagerInv'
  <2> SUFFICES ASSUME PagerInv, [Next]_vars PROVE PagerInv'
    OBVIOUS
  <2>1. CASE PagerNext
    BY <2>1, PagerStep
  <2>2. CASE UNCHANGED pagerVars
    BY <2>2 DEF pagerVars, PagerInv, PagerTyped
  <2>q. QED BY <2>1, <2>2 DEF Next, vars
<1>3. PagerInv => PageExists
  BY DEF PagerInv, PageExists
<1>q. QED BY <1>1, <1>2, <1>3, PTL DEF Spec

=============================================================================
