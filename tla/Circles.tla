------------------------------- MODULE Circles -------------------------------
(***************************************************************************)
(* Moving stories and issues between the circles of a Taiga server         *)
(* (jumpscale/clients/taiga/taiga.py, models.py).  The server has no move: *)
(* the client makes a new item, copies the parts of the old one to it, a   *)
(* request each, and deletes the old one.  A part is a comment or a task   *)
(* of a story, or a custom field of an issue; the comments of tasks and of *)
(* issues, and the descriptions of stories, are not copied and no parts.   *)
(***************************************************************************)
EXTENDS Naturals, FiniteSets

CONSTANTS Movers,   \* calls of the client
          Circle,   \* circles there may be
          Comments, Tasks, Fields,   \* parts
          MaxItems  \* bound: items made

VARIABLES circles,    \* of the server
          attributes, \* the custom attributes of each circle
          items,      \* of the server
          made,       \* number of items made
          moves,      \* what each mover is at
          kept,       \* ghost: parts written, with the first item they were of
          late        \* ghost: those written while a mover was past reading them

(* No part is of two kinds.                                                *)
CirclesAssumption ==
    /\ Comments \cap Tasks = {} /\ Comments \cap Fields = {} /\ Tasks \cap Fields = {}
    /\ MaxItems \in Nat

vars == <<circles, attributes, items, made, moves, kept, late>>

Parts == Comments \cup Tasks \cup Fields
Ids == 1 .. MaxItems
Item == [id : Ids, kind : {"story", "issue"}, circle : Circle, of : Ids,
         parts : SUBSET Parts]
Idle == [at |-> "idle", item |-> 0, copy |-> 0, keep |-> FALSE, todo |-> {}, read |-> {}]

TypeOK ==
    /\ circles \subseteq Circle /\ attributes \in [Circle -> SUBSET Fields]
    /\ items \subseteq Item /\ made \in 0 .. MaxItems
    /\ \A i, j \in items : i.id = j.id => i = j
    /\ \A m \in Movers : moves[m].todo \subseteq moves[m].read
    /\ late \subseteq kept /\ kept \subseteq Ids \X Parts

Init ==
    /\ circles = {} /\ attributes = [k \in Circle |-> {}]
    /\ items = {} /\ made = 0
    /\ moves = [m \in Movers |-> Idle]
    /\ kept = {} /\ late = {}

PartsOf(kind) == IF kind = "story" THEN Comments \cup Tasks ELSE Fields
There(id) == \E i \in items : i.id = id
The(id) == CHOOSE i \in items : i.id = id
At(m, at) == moves[m].at = at
Ends(m) == moves' = [moves EXCEPT ![m] = Idle]
Kept == UNCHANGED <<circles, attributes, items, made, kept, late>>

(* A part p that is put in item i now is missed by a mover that has read   *)
(* the parts of its kind.                                                  *)
Missed(i, p) == \E m \in Movers : moves[m].item = i.id /\ p \in moves[m].read
Gains(i, p, missed) ==
    /\ items' = (items \ {i}) \cup {[i EXCEPT !.parts = @ \cup {p}]}
    /\ late' = IF missed THEN late \cup {<<i.of, p>>} ELSE late

-----------------------------------------------------------------------------
(* _create_new_circle: the circle, then its attributes; a request for one  *)
(* of these that fails is skipped.                                         *)
CreateCircle(k) ==
    /\ k \notin circles
    /\ circles' = circles \cup {k}
    /\ \E A \in SUBSET Fields : attributes' = [attributes EXCEPT ![k] = A]
    /\ UNCHANGED <<items, made, moves, kept, late>>

New(kind, k, of) ==
    /\ made < MaxItems /\ k \in circles /\ made' = made + 1
    /\ items' = items \cup {[id |-> made + 1, kind |-> kind, circle |-> k,
                             of |-> IF of = 0 THEN made + 1 ELSE of, parts |-> {}]}

(* create_story, create_issue, and people at the web page of the circle.   *)
CreateItem(kind, k) ==
    /\ New(kind, k, 0)
    /\ UNCHANGED <<circles, attributes, moves, kept, late>>

Write(i, p) ==
    /\ p \in PartsOf(i.kind) \ i.parts
    /\ <<i.of, p>> \notin kept
    /\ kept' = kept \cup {<<i.of, p>>}
    /\ Gains(i, p, Missed(i, p) \/ \E m \in Movers : moves[m].copy = i.id)
    /\ UNCHANGED <<circles, attributes, made, moves>>

(* move_story_to_circle, move_issue, and copy_issue, which keeps the old   *)
(* one.  The fields of an issue are read before it is made anew.           *)
Move(m, i) ==
    /\ At(m, "idle")
    /\ \E keep \in BOOLEAN :
         /\ keep => i.kind = "issue"
         /\ moves' = [moves EXCEPT ![m] = [Idle EXCEPT
              !.at = "create", !.item = i.id, !.keep = keep,
              !.todo = IF i.kind = "issue" THEN i.parts ELSE {},
              !.read = IF i.kind = "issue" THEN Fields ELSE {}]]
    /\ Kept

Create(m, k) ==
    /\ At(m, "create")
    /\ There(moves[m].item)
    /\ LET i == The(moves[m].item)
       IN  /\ New(i.kind, k, i.of)
           /\ moves' = [moves EXCEPT
                ![m].at = IF i.kind = "story" THEN "comments" ELSE "last",
                ![m].copy = made + 1]
    /\ UNCHANGED <<circles, attributes, kept, late>>

(* The comments and then the tasks of the story, each read in one request. *)
Reads(m, at, S, item) ==
    /\ There(item)
    /\ moves' = [moves EXCEPT ![m].at = at, ![m].todo = The(item).parts \cap S,
                              ![m].read = @ \cup S]
    /\ Kept

ReadComments(m) == At(m, "comments") /\ Reads(m, "tasks", Comments, moves[m].item)

\* Mutant: the tasks are listed from the new story.
ReadTasks_New(m) ==
    /\ At(m, "tasks") /\ moves[m].todo = {}
    /\ Reads(m, "last", Tasks, moves[m].copy)
ReadTasks(m) ==
    /\ At(m, "tasks") /\ moves[m].todo = {}
    /\ Reads(m, "last", Tasks, moves[m].item)

(* A field that the circle has no attribute for gets one.                  *)
AddPart(m) ==
    /\ There(moves[m].copy)
    /\ LET copy == The(moves[m].copy)
       IN \E p \in moves[m].todo :
            /\ Gains(copy, p, Missed(copy, p))
            /\ moves' = [moves EXCEPT ![m].todo = @ \ {p}]
            /\ attributes' = [attributes EXCEPT ![copy.circle] = @ \cup ({p} \cap Fields)]
    /\ UNCHANGED <<circles, made, kept>>

DeleteOriginal(m) ==
    /\ At(m, "last") /\ moves[m].todo = {}
    /\ items' = IF moves[m].keep THEN items
                ELSE {i \in items : i.id # moves[m].item}
    /\ Ends(m)
    /\ UNCHANGED <<circles, attributes, made, kept, late>>

(* A request fails, or finds what it is about deleted.  While the parts of *)
(* a story are copied the new story is deleted, or that fails too; in      *)
(* every other place the items are left as they are.                       *)
Fails(m) ==
    /\ moves[m] # Idle
    /\ Ends(m)
    /\ Kept

Undo(m) ==
    /\ moves[m].copy # 0 /\ There(moves[m].copy) /\ The(moves[m].copy).kind = "story"
    /\ items' = {i \in items : i.id # moves[m].copy}
    /\ Ends(m)
    /\ UNCHANGED <<circles, attributes, made, kept, late>>

Next ==
    \/ \E k \in Circle, kind \in {"story", "issue"} : CreateCircle(k) \/ CreateItem(kind, k)
    \/ \E i \in items, p \in Parts : Write(i, p)
    \/ \E m \in Movers :
         \/ \E i \in items : Move(m, i)
         \/ \E k \in Circle : Create(m, k)
         \/ ReadComments(m) \/ ReadTasks(m) \/ AddPart(m)
         \/ DeleteOriginal(m) \/ Fails(m) \/ Undo(m)

Spec == Init /\ [][Next]_vars

-----------------------------------------------------------------------------
(* What was written to a story or an issue is still somewhere, however it  *)
(* is moved, by several at once, and whichever request fails; except what  *)
(* was written to an item that a call had read by then, or was making.     *)
PartsKept ==
    \A part \in kept \ late : \E i \in items : i.of = part[1] /\ part[2] \in i.parts
=============================================================================
