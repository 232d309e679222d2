------------------------------- MODULE Paging -------------------------------
(***************************************************************************)
(* The lists that are read a page at a time, while rows change between the *)
(* pages: ideas, tasks and the backlog of the plan.                        *)
(*                                                                         *)
(* A row has an id and the key it is sorted by (updatedAt, sortOrder or    *)
(* createdAt).  Ids are UUIDs, which PostgreSQL compares: numbers here.    *)
(***************************************************************************)
EXTENDS Integers, Sequences, SequencesExt, FiniteSets

CONSTANTS Rows,     \* the ids, numbers
          RowKeys,  \* the keys rows begin with, numbers
          Limits,   \* the sizes of a page
          MaxTouches

ASSUME PagingAssumption ==
  /\ Rows \subseteq Nat /\ IsFiniteSet(Rows) /\ RowKeys \subseteq Nat /\ Limits \subseteq Nat \ {0}
  /\ MaxTouches \in Nat

NoList == [kind |-> "none"]

VARIABLE list \* the list being read, with the rows it reads

Kinds == {"ideas", "ideasById", "tasks", "backlog"}

\* No page was read yet; a cursor is a pair of a key and an id.
NoCursor == <<>>

PagingInit == list = NoList

(* The order of a list: ideas by updatedAt and id, tasks by sortOrder, the  *)
(* backlog by createdAt; rows of one key in any order but for ideas.        *)
Precedes(kind, a, b) ==
  CASE kind \in {"ideas", "ideasById"} ->
         list.keys[a] > list.keys[b] \/ (list.keys[a] = list.keys[b] /\ a > b)
    [] kind = "tasks" -> list.keys[a] < list.keys[b]
    [] kind = "backlog" -> list.keys[a] > list.keys[b]

\* Fault: the id does not break a tie.
AfterNoTie(kind, row, cursor) ==
  CASE kind \in {"ideas", "ideasById"} -> list.keys[row] < cursor[1]
    [] kind = "tasks" -> row < cursor[2]
    [] kind = "backlog" -> row > cursor[2]
(* The rows after a cursor.                                                 *)
After(kind, row, cursor) ==
  CASE kind \in {"ideas", "ideasById"} ->
         list.keys[row] < cursor[1] \/ (list.keys[row] = cursor[1] /\ row < cursor[2])
    [] kind = "tasks" -> row < cursor[2]
    [] kind = "backlog" -> row > cursor[2]

(* decodeCursor: the one the last page ended with; from an id alone, the    *)
(* key is the one the row has now.                                          *)
Decoded == IF list.kind = "ideasById" THEN <<list.keys[list.cursor[2]], list.cursor[2]>>
           ELSE list.cursor

\* Whether the row of an id cursor is there to be decoded.
CursorStands ==
  list.kind = "ideasById" /\ list.cursor # NoCursor => list.cursor[2] \in list.present

Listed ==
  {r \in list.present : list.cursor = NoCursor \/ After(list.kind, r, Decoded)}

\* What the database may answer, in the order of the list.
Arrangements(rows) ==
  {s \in SetToSeqs(rows) : \A i, k \in DOMAIN s : i < k => ~Precedes(list.kind, s[k], s[i])}

(* The cursor of the next page, if there is one: ideas and tasks read one   *)
(* row more to know, the backlog asks again after a full page.              *)
More(found, limit) ==
  IF list.kind = "backlog" THEN Len(found) >= limit ELSE Len(found) > limit

-----------------------------------------------------------------------------
\* A client begins to read a list of this many rows a page.
StartList ==
  /\ list = NoList
  /\ \E kind \in Kinds, limit \in Limits, keys \in [Rows -> RowKeys] :
       list' = [kind |-> kind, limit |-> limit, keys |-> keys, present |-> Rows,
                cursor |-> NoCursor, got |-> <<>>, touched |-> {}, ended |-> "no"]

(* listIdeas, listTasks and getBacklog: one page.                           *)
ReadPage ==
  /\ list # NoList /\ list.ended = "no" /\ CursorStands
  /\ \E found \in Arrangements(Listed) :
       LET items == SubSeq(found, 1, IF Len(found) < list.limit THEN Len(found) ELSE list.limit)
           last == items[Len(items)]
       IN list' = [list EXCEPT
            !.got = @ \o items,
            !.ended = IF More(found, list.limit) THEN "no" ELSE "yes",
            !.cursor = IF More(found, list.limit) THEN <<list.keys[last], last>> ELSE @]

(* decodeCursor: the idea of the cursor is gone, a 404.                     *)
ReadFails ==
  /\ list # NoList /\ list.ended = "no" /\ ~CursorStands
  /\ list' = [list EXCEPT !.ended = "failed"]

\* A row changes: an idea becomes the latest, a task is moved; what was
\* created when does not change.
Touch ==
  /\ list # NoList /\ list.ended = "no" /\ list.kind # "backlog"
  /\ Cardinality(list.touched) < MaxTouches
  /\ \E r \in list.present :
       \E key \in IF list.kind = "tasks" THEN RowKeys
                  ELSE {1 + CHOOSE k \in {list.keys[i] : i \in Rows} :
                              \A i \in Rows : k >= list.keys[i]} :
         list' = [list EXCEPT !.keys[r] = key, !.touched = @ \cup {r}]

\* A row leaves the list: it is deleted, archived or done.
Leave ==
  /\ list # NoList /\ list.ended = "no"
  /\ Cardinality(list.touched) < MaxTouches
  /\ \E r \in list.present :
       list' = [list EXCEPT !.present = @ \ {r}, !.touched = @ \cup {r}]

PagingNext == StartList \/ ReadPage \/ ReadFails \/ Touch \/ Leave

PagingSpec == PagingInit /\ [][PagingNext]_list

-----------------------------------------------------------------------------
\* The ids of a list agree with its order, as the cursor of tasks and of the
\* backlog takes for granted.
IdsFollow ==
  CASE list.kind = "tasks" -> \A a, b \in Rows : a > b => Precedes("tasks", a, b)
    [] list.kind = "backlog" -> \A a, b \in Rows : a < b => Precedes("backlog", a, b)
    [] OTHER -> TRUE

(* However its rows change between the pages, a list that was read to its   *)
(* end holds each row that did not change once, and no row twice: always    *)
(* for ideas read with the cursors the API gives out, for those read with   *)
(* an id as the cursor while no row changes, and for tasks and the backlog  *)
(* only if the ids happen to follow the order.                              *)
ListsAreExact ==
  LET exact ==
        \/ list.kind = "ideas"
        \/ list.kind = "ideasById" /\ list.touched = {}
        \/ list.kind = "tasks" /\ IdsFollow /\ list.touched = {}
        \/ list.kind = "backlog" /\ IdsFollow
  IN list # NoList /\ list.ended = "yes" /\ exact =>
       /\ IsInjective(list.got)
       /\ Rows \ list.touched \subseteq ToSet(list.got)
=============================================================================
