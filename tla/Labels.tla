------------------------------- MODULE Labels -------------------------------
(***************************************************************************)
(* Setting the labels of a repository on GitHub                            *)
(* (jumpscale/clients/github/repo.py, labelsSet with delete at its         *)
(* default), with several objects for the repository, each with the list   *)
(* of labels it has read.  GitHub is external: a label goes by its name,   *)
(* which no two labels have, in capitals or not; an edit renames it where  *)
(* it is in use.                                                           *)
(***************************************************************************)
EXTENDS FiniteSets

CONSTANTS Callers, Names,
          Lower,      \* each name without capitals
          Replace,    \* replacelabels
          Unknown,    \* "type_unknown"
          Protected,  \* names that begin as one of ignoreDelete
          GetColor,   \* get_color
          Wants,      \* what is asked for in a call
          Absent, Nothing

(* What is asked for is asked for without capitals, and no label that is   *)
(* protected is replaced, or replaces another.                             *)
LabelsAssumption ==
    /\ \A n \in Names : Lower[n] \in Names /\ Lower[Lower[n]] = Lower[n]
    /\ Wants \subseteq SUBSET {n \in Names : Lower[n] = n}
    /\ \A n \in DOMAIN Replace : Replace[n] \in Names \ Protected
    /\ \A n \in Names \cap Protected : Lower[n] \notin DOMAIN Replace
    /\ Unknown \in Names \ Protected /\ Absent \notin {GetColor[n] : n \in Names}
    /\ Nothing \notin [Names -> {GetColor[n] : n \in Names} \cup {Absent}]

VARIABLES labels,  \* the colour of each label on GitHub
          cache,   \* the list of each object, if it has one
          calls,   \* where each call is, and what is left of the loop it is in
          spoiled, \* ghost: objects whose list or call others have changed labels under
          gone     \* ghost: names that were deleted or renamed

vars == <<labels, cache, calls, spoiled, gone>>

Colors == {GetColor[n] : n \in Names}
Lists == [Names -> Colors \cup {Absent}]
Loops == {"walk", "create", "delete", "colors"}
None == [n \in Names |-> Absent]
There(list) == {n \in Names : list[n] # Absent}
Unique(list) == \A n, m \in There(list) : Lower[n] = Lower[m] => n = m

TypeOK ==
    /\ labels \in Lists /\ Unique(labels)
    /\ cache \in [Callers -> Lists \cup {Nothing}]
    /\ calls \in [Callers -> [at : Loops \cup {"idle", "done"}, begun : BOOLEAN,
                              left : Lists, want : Wants \cup {{}}]]
    /\ spoiled \subseteq Callers /\ gone \subseteq Names

Idle == [at |-> "idle", begun |-> FALSE, left |-> None, want |-> {}]

Init ==
    /\ labels \in {list \in Lists : /\ Unique(list)
                                    /\ \A n \in There(list) : list[n] = GetColor[Unknown]}
    /\ cache = [c \in Callers |-> Nothing]
    /\ calls = [c \in Callers |-> Idle]
    /\ spoiled = {} /\ gone = {}

At(c, stage) == calls[c].at = stage
Wanted(c) == calls[c].want

-----------------------------------------------------------------------------
(* What GitHub does; a change spoils what the others go by.                *)
CanCreate(n) == \A k \in There(labels) : Lower[k] # Lower[n]
CanEdit(n, m) == n \in There(labels) /\ \A k \in There(labels) \ {n} : Lower[k] # Lower[m]

Spoils(c) == spoiled' = spoiled \cup {d \in Callers \ {c} : cache[d] # Nothing \/ ~At(d, "idle")}
Edit(c, n, m, color) ==
    /\ labels' = [labels EXCEPT ![n] = Absent, ![m] = color]
    /\ gone' = gone \cup ({n} \ {m})
    /\ Spoils(c)
Delete(c, n) ==
    /\ labels' = [labels EXCEPT ![n] = Absent]
    /\ gone' = gone \cup {n}
    /\ Spoils(c)
Untouched == UNCHANGED <<labels, spoiled, gone>>

(* The loop goes on with the next item; after a change the list is read    *)
(* again when it is needed; and what raises ends the call.                 *)
Done(c, n) == calls' = [calls EXCEPT ![c].left[n] = Absent]
Skip(c, n) == Done(c, n) /\ Untouched /\ UNCHANGED cache
Forget(c) == cache' = [cache EXCEPT ![c] = Nothing]
Raises(c) == calls' = [calls EXCEPT ![c] = Idle] /\ Untouched /\ UNCHANGED cache

-----------------------------------------------------------------------------
(* Another object for the repository                                       *)
Renew(c) ==
    /\ At(c, "idle") /\ cache[c] # Nothing
    /\ Forget(c)
    /\ spoiled' = spoiled \ {c}
    /\ UNCHANGED <<labels, calls, gone>>

LabelsSet(c, want) ==
    /\ At(c, "idle")
    /\ calls' = [calls EXCEPT ![c] = [Idle EXCEPT !.at = "walk", !.want = want]]
    /\ spoiled' = IF cache[c] = Nothing THEN spoiled \ {c} ELSE spoiled
    /\ UNCHANGED <<labels, cache, gone>>

Load(c) ==
    /\ calls[c].at \in Loops /\ cache[c] = Nothing
    /\ cache' = [cache EXCEPT ![c] = labels]
    /\ UNCHANGED <<labels, calls, spoiled, gone>>

LoadFails(c) ==
    /\ calls[c].at \in Loops /\ cache[c] = Nothing
    /\ Raises(c)

(* Each loop walks over a copy of the list, the second over the argument.  *)
BeginLoop(c) ==
    /\ calls[c].at \in Loops /\ ~calls[c].begun
    /\ At(c, "create") \/ cache[c] # Nothing
    /\ calls' = [calls EXCEPT ![c].begun = TRUE, ![c].left =
                   IF At(c, "create") THEN [n \in Names |-> IF n \in Wanted(c) THEN GetColor[n]
                                                            ELSE Absent]
                   ELSE cache[c]]
    /\ Untouched /\ UNCHANGED cache

After == [walk |-> "create", create |-> "delete", delete |-> "colors", colors |-> "done"]
EndLoop(c) ==
    /\ calls[c].at \in Loops /\ calls[c].begun /\ calls[c].left = None
    /\ calls' = [calls EXCEPT ![c].at = After[@], ![c].begun = FALSE]
    /\ Untouched /\ UNCHANGED cache

Return(c) ==
    /\ At(c, "done")
    /\ calls' = [calls EXCEPT ![c] = Idle]
    /\ Untouched /\ UNCHANGED cache

-----------------------------------------------------------------------------
(* The first loop: a label that is not asked for is given the name that    *)
(* replaces its own, where the list has none of that name.                 *)
Walk(c, n) ==
    /\ At(c, "walk") /\ Lower[n] \in Wanted(c)
    /\ Skip(c, n)

HasReplacement(n) == Lower[n] \in DOMAIN Replace
Replacement(n) == Replace[Lower[n]]

Rename(c, n, ok) ==
    LET new == Replacement(n)
    IN /\ At(c, "walk") /\ Lower[n] \notin Wanted(c) /\ HasReplacement(n)
       /\ cache[c] # Nothing
       /\ IF new \in There(cache[c]) THEN ok /\ Skip(c, n)
          ELSE IF ok /\ CanEdit(n, new)
          THEN Edit(c, n, new, GetColor[Lower[n]]) /\ Done(c, n) /\ Forget(c)
          ELSE Raises(c)

(* With no replacement it becomes type_unknown, and is deleted when that   *)
(* fails, whatever the reason.                                             *)
Disown(c, n, edited, deleted) ==
    /\ At(c, "walk") /\ Lower[n] \notin Wanted(c) /\ ~HasReplacement(n)
    /\ IF edited /\ CanEdit(n, Unknown)
       THEN deleted /\ Edit(c, n, Unknown, GetColor[Unknown]) /\ Done(c, n) /\ Forget(c)
       ELSE IF deleted /\ labels[n] # Absent
       THEN Delete(c, n) /\ Done(c, n) /\ Forget(c)
       ELSE Raises(c)

CreateLabel(c, n, ok) ==
    /\ At(c, "create") /\ cache[c] # Nothing
    /\ IF n \in There(cache[c]) THEN ok /\ Skip(c, n)
       ELSE IF ok /\ CanCreate(n)
       THEN /\ labels' = [labels EXCEPT ![n] = GetColor[n]]
            /\ Spoils(c) /\ Done(c, n) /\ Forget(c)
            /\ UNCHANGED gone
       ELSE Raises(c)

\* Mutant: what the first loop spared is spared again.
DeleteLabel_None(c, n, ok) ==
    /\ At(c, "delete") /\ ok /\ Skip(c, n)
DeleteLabel(c, n, ok) ==
    /\ At(c, "delete")
    /\ IF n \in Wanted(c) THEN ok /\ Skip(c, n)
       ELSE IF n \in Protected THEN ok /\ Done(c, n) /\ Forget(c) /\ Untouched
       ELSE IF ok /\ labels[n] # Absent
       THEN Delete(c, n) /\ Done(c, n) /\ Forget(c)
       ELSE Raises(c)

Color(c, n, ok) ==
    /\ At(c, "colors")
    /\ IF calls[c].left[n] = GetColor[n] THEN ok /\ Skip(c, n)
       ELSE IF ok /\ labels[n] # Absent
       THEN Edit(c, n, n, GetColor[n]) /\ Done(c, n) /\ Forget(c)
       ELSE Raises(c)

Next ==
    \E c \in Callers :
      \/ Renew(c) \/ (\E want \in Wants : LabelsSet(c, want))
      \/ Load(c) \/ LoadFails(c) \/ BeginLoop(c) \/ EndLoop(c) \/ Return(c)
      \/ \E n \in There(calls[c].left) :
           \/ Walk(c, n)
           \/ \E ok \in BOOLEAN : \/ Rename(c, n, ok) \/ CreateLabel(c, n, ok)
                                  \/ DeleteLabel(c, n, ok) \/ Color(c, n, ok)
                                  \/ \E deleted \in BOOLEAN : Disown(c, n, ok, deleted)

Spec == Init /\ [][Next]_vars

-----------------------------------------------------------------------------
(* A call that comes to its end, with nobody else having changed the       *)
(* labels under it, leaves the labels it was asked for, in their colours,  *)
(* and none besides; and no call, wherever it fails and whatever list it   *)
(* goes by, takes a label that every call asks for from the issues that    *)
(* have it.                                                                *)
LabelsAreSet ==
    /\ \A c \in Callers \ spoiled : At(c, "done") =>
         labels = [n \in Names |-> IF n \in Wanted(c) THEN GetColor[n] ELSE Absent]
    /\ \A n \in gone : \E want \in Wants : n \notin want
=============================================================================
