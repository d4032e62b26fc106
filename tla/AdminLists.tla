----------------------------- MODULE AdminLists -------------------------------
(***************************************************************************)
(* How the administration front end keeps lists: the lists of tasks, which *)
(* are kept by a cache and asked for again after a save, and the pager of a*)
(* list that also has a filter.                                            *)
(*                                                                         *)
(* The cache is React Query's (external): an answer is good for a minute   *)
(* unless it is invalidated; what is on the screen is then loaded again, in*)
(* place of a load under way; other entries are loaded when they are shown.*)
(* But an entry that never had an answer keeps the load it has, and a load *)
(* of an entry that is not on the screen goes on and counts as new.        *)
(***************************************************************************)
EXTENDS Integers, FiniteSets

CONSTANTS
  List,      \* the lists of tasks: mine, and all of them under a filter
  Save,      \* tasks that are created or whose status is changed
  Filter,    \* the filters of a paged list
  MaxPages   \* bound on the pages of a list

\* There is the list of one's own tasks, and a paged list without a filter.
ASSUME ListsAssumption == List # {} /\ Filter # {} /\ MaxPages \in Nat

VARIABLES
  onScreen, \* the list of tasks that is shown
  cache,    \* what is kept of each list
  save,     \* how far each save is: not sent, sent, applied, or returned to the page
  pager,    \* the page and filter asked for, whether the answer is awaited, the last answer
  pages,    \* the pages the backend has under each filter
  (*************************** history variables ***************************)
  missed,   \* lists whose last load failed, or was under way when a save returned
  hasty,    \* the pager was used while an answer was awaited
  shrunk    \* a list has lost pages

listVars == <<onScreen, cache, save, missed>>
pagerVars == <<pager, pages, hasty, shrunk>>

-----------------------------------------------------------------------------
(* The lists of tasks: an answer is the set of the saves it tells of       *)

Entry == [has |-> FALSE, data |-> {}, fresh |-> FALSE, load |-> "no", carried |-> {}]

\* The entry is asked for.
Loading(entry) == [entry EXCEPT !.load = "asked", !.carried = {}]

\* The list comes on the screen, or the window is looked at again: it is loaded unless its
\* answer is good or on its way.
Needed(entry) == entry.load = "no" /\ ~entry.fresh
Watched(l) == IF Needed(cache[l]) THEN Loading(cache[l]) ELSE cache[l]

ListsInit ==
  /\ onScreen \in List
  /\ cache = [l \in List |-> IF l = onScreen THEN Loading(Entry) ELSE Entry]
  /\ save = [s \in Save |-> "no"]
  /\ missed = {}

Show(l) ==
  /\ onScreen' = l
  /\ cache' = [cache EXCEPT ![l] = Watched(l)]
  /\ missed' = IF Needed(cache[l]) THEN missed \ {l} ELSE missed
  /\ UNCHANGED save

SubmitTask(s) ==
  /\ save[s] = "no"
  /\ save' = [save EXCEPT ![s] = "sent"]
  /\ UNCHANGED <<onScreen, cache, missed>>

ApplyTask(s) ==
  /\ save[s] = "sent"
  /\ save' = [save EXCEPT ![s] = "applied"]
  /\ UNCHANGED <<onScreen, cache, missed>>

\* invalidateQueries on the lists: a load under way is given up for a new one if the list is
\* on the screen and has an answer.
Invalidated(l) ==
  LET entry == [cache[l] EXCEPT !.fresh = FALSE]
  IN  IF l = onScreen /\ (entry.has \/ entry.load = "no") THEN Loading(entry) ELSE entry

\* Loads that the invalidation lets go on.
Overtaken(l) == cache[l].load # "no" /\ ~(l = onScreen /\ cache[l].has)

\* [mutant] The save invalidates the list on the screen only.
TaskSavedHere(s) ==
  /\ save[s] = "applied"
  /\ save' = [save EXCEPT ![s] = "returned"]
  /\ cache' = [cache EXCEPT ![onScreen] = Invalidated(onScreen)]
  /\ missed' = {l \in List : Overtaken(l) \/ (l \in missed /\ l # onScreen)}
  /\ UNCHANGED onScreen

\* onSuccess of both mutations.
TaskSaved(s) ==
  /\ save[s] = "applied"
  /\ save' = [save EXCEPT ![s] = "returned"]
  /\ cache' = [l \in List |-> Invalidated(l)]
  /\ missed' = {l \in List : Overtaken(l) \/ (l \in missed /\ l # onScreen)}
  /\ UNCHANGED onScreen

\* The backend reads the list.
ReadList(l) ==
  /\ cache[l].load = "asked"
  /\ cache' = [cache EXCEPT ![l].load = "read",
                            ![l].carried = {s \in Save : save[s] \in {"applied", "returned"}}]
  /\ UNCHANGED <<onScreen, save, missed>>

ListArrives(l) ==
  /\ cache[l].load = "read"
  /\ cache' = [cache EXCEPT ![l] = [has |-> TRUE, data |-> @.carried, fresh |-> TRUE,
                                    load |-> "no", carried |-> {}]]
  /\ UNCHANGED <<onScreen, save, missed>>

\* The load and its retry fail; what the list had stays on the screen.
LoadFails(l) ==
  /\ cache[l].load # "no"
  /\ cache' = [cache EXCEPT ![l].load = "no", ![l].carried = {}]
  /\ missed' = missed \cup {l}
  /\ UNCHANGED <<onScreen, save>>

\* staleTime: the answer is a minute old.
Ages(l) ==
  /\ cache[l].fresh
  /\ cache' = [cache EXCEPT ![l].fresh = FALSE]
  /\ UNCHANGED <<onScreen, save, missed>>

ListsNext ==
  \/ \E l \in List : Show(l) \/ ReadList(l) \/ ListArrives(l) \/ LoadFails(l) \/ Ages(l)
  \/ \E s \in Save : SubmitTask(s) \/ ApplyTask(s) \/ TaskSaved(s)

-----------------------------------------------------------------------------
(* The pager                                                               *)

AtLeastOne(n) == IF n > 1 THEN n ELSE 1

\* getPaginationParams and buildPaginatedResult, of a list with the given number of pages.
Paginated(asked, total) ==
  LET p == AtLeastOne(asked)
  IN  [totalPages |-> total, hasNextPage |-> p < total, hasPrevPage |-> p > 1]

NoAnswer == [totalPages |-> 0, hasNextPage |-> FALSE, hasPrevPage |-> FALSE]

PagerInit ==
  /\ pager \in [page : {1}, filter : Filter, awaited : {TRUE}, meta : {NoAnswer}]
  /\ pages \in [Filter -> 0 .. MaxPages]
  /\ hasty = FALSE
  /\ shrunk = FALSE

\* [mutant] Another filter keeps the page.
ChooseStay(f) ==
  /\ f # pager.filter
  /\ pager' = [pager EXCEPT !.filter = f, !.awaited = TRUE]
  /\ UNCHANGED <<pages, hasty, shrunk>>

\* setStatus or setSearch, with setPage(1).
Choose(f) ==
  /\ f # pager.filter
  /\ pager' = [pager EXCEPT !.filter = f, !.page = 1, !.awaited = TRUE]
  /\ UNCHANGED <<pages, hasty, shrunk>>

\* The buttons follow the last answer, which stays while the next one is awaited.
Turn(step) ==
  /\ pager.meta.totalPages > 1
  /\ IF step = 1 THEN pager.meta.hasNextPage ELSE pager.meta.hasPrevPage
  /\ pager.page + step \in 0 .. MaxPages + 1
  /\ pager' = [pager EXCEPT !.page = @ + step, !.awaited = TRUE]
  /\ hasty' = (hasty \/ pager.awaited)
  /\ UNCHANGED <<pages, shrunk>>

\* An answer that the cache still has does as well while no list has lost pages.
PageArrives ==
  /\ pager.awaited
  /\ pager' = [pager EXCEPT !.awaited = FALSE,
                            !.meta = Paginated(pager.page, pages[pager.filter])]
  /\ UNCHANGED <<pages, hasty, shrunk>>

\* Others create and delete.
PagesChange(f, n) ==
  /\ n \in 0 .. MaxPages
  /\ n # pages[f]
  /\ pages' = [pages EXCEPT ![f] = n]
  /\ shrunk' = (shrunk \/ n < pages[f])
  /\ UNCHANGED <<pager, hasty>>

PagerNext ==
  \/ \E f \in Filter : Choose(f)
  \/ \E step \in {-1, 1} : Turn(step)
  \/ PageArrives
  \/ \E f \in Filter, n \in 0 .. MaxPages : PagesChange(f, n)
=============================================================================
