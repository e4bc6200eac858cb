----------------------------- MODULE CircleFiles -----------------------------
(***************************************************************************)
(* The yaml files of a Taiga instance (export_as_yaml and import_from_yaml *)
(* of jumpscale/clients/taiga/taiga.py, as_yaml of models.py).  A circle's *)
(* file names its stories and issues, a story's file its tasks; an issue   *)
(* is exported and imported as a story without tasks is.                   *)
(***************************************************************************)
EXTENDS Naturals, Sequences, SequencesExt, FiniteSetsExt

CONSTANTS Circle, Story, Task,
          Nowhere,  \* not on the server
          Archived  \* circles with a name that starts with ARCHIVE_

FilesAssumption ==
    /\ IsFiniteSet(Circle) /\ IsFiniteSet(Story) /\ IsFiniteSet(Task)
    /\ Circle \cap Story = {} /\ Circle \cap Task = {} /\ Story \cap Task = {}
    /\ Nowhere \notin Circle \cup Story \cup Task /\ Archived \subseteq Circle

VARIABLES under,    \* what each story is of, and each task; a circle is of itself
          files,    \* what each file names, {Nowhere} when there is no file
          listing,  \* of the export: what each of its greenlets has left to write
          import,   \* what an import has left to make
          state,    \* of the import
          spoiled   \* ghost: an export missed a change or a file

vars == <<under, files, listing, import, state, spoiled>>

Things == Circle \cup Story \cup Task
Kinds == {Circle, Story, Task}
NoFile == {Nowhere}
Unlisted == {Nowhere}

TypeOK ==
    /\ under \in [Things -> Things \cup {Nowhere}]
    /\ files \in [Things -> (SUBSET Things) \cup {NoFile}]
    /\ listing \in [Kinds -> (SUBSET Things) \cup {Unlisted}]
    /\ import \in Seq(Things)
    /\ state \in {"none", "importing", "done", "failed"} /\ spoiled \in BOOLEAN

Init ==
    /\ under = [x \in Things |-> Nowhere]
    /\ files = [x \in Things |-> NoFile]
    /\ listing = [K \in Kinds |-> Unlisted]
    /\ import = <<>> /\ state = "none"
    /\ spoiled = FALSE

There(x) == under[x] # Nowhere
Exporting == \E K \in Kinds : listing[K] # Unlisted
(* What as_yaml names in the file of x, when it is written                 *)
Stories(x) == {y \in Story : under[y] = x}
Tasks(x) == {y \in Task : under[y] = x}
Content(x) == IF x \in Circle THEN Stories(x) ELSE IF x \in Story THEN Tasks(x) ELSE {}

-----------------------------------------------------------------------------
(* People make and delete things, and move stories.                        *)
Change(x, y) ==
    /\ under[x] # y
    /\ y # Nowhere =>
         \/ x = y /\ x \in Circle
         \/ x \in Story /\ y \in Circle /\ There(y)
         \/ x \in Task /\ y \in Story /\ There(y) /\ ~There(x)
    /\ y = Nowhere => Content(x) = {}
    /\ under' = [under EXCEPT ![x] = y]
    /\ spoiled' = (spoiled \/ Exporting)
    /\ UNCHANGED <<files, listing, import, state>>

(* A greenlet for each kind lists what there is, archived circles left out.*)
\* Mutant: no greenlet for the tasks.
ExportStarts_NoTasks ==
    /\ ~Exporting
    /\ listing' = [K \in Kinds |->
         IF K = Task THEN {} ELSE {x \in K \ Archived : There(x)}]
    /\ spoiled' = (spoiled \/ state = "importing")
    /\ UNCHANGED <<under, files, import, state>>
ExportStarts ==
    /\ ~Exporting
    /\ listing' = [K \in Kinds |-> {x \in K \ Archived : There(x)}]
    /\ spoiled' = (spoiled \/ state = "importing")
    /\ UNCHANGED <<under, files, import, state>>

(* An object that cannot be written is logged and skipped.                 *)
Export(K, ok) ==
    /\ listing[K] \notin {Unlisted, {}}
    /\ \E x \in listing[K] :
         /\ listing' = [listing EXCEPT ![K] = @ \ {x}]
         /\ files' = IF ok THEN [files EXCEPT ![x] = Content(x)] ELSE files
    /\ spoiled' = (spoiled \/ ~ok)
    /\ UNCHANGED <<under, import, state>>

ExportEnds ==
    /\ \A K \in Kinds : listing[K] = {}
    /\ listing' = [K \in Kinds |-> Unlisted]
    /\ UNCHANGED <<under, files, import, state, spoiled>>

(* An import goes through the files of the circles.  What a file names is  *)
(* made, from its own file, before what comes after.                       *)
ImportStarts ==
    /\ state # "importing"
    /\ import' = SetToSeq({x \in Circle : files[x] # NoFile})
    /\ state' = "importing"
    /\ spoiled' = (spoiled \/ Exporting)
    /\ UNCHANGED <<under, files, listing>>

Import(ok) ==
    /\ state = "importing" /\ import # <<>>
    /\ LET x == Head(import)
       IN  IF files[x] # NoFile /\ ok
           THEN /\ import' = SetToSeq(files[x]) \o Tail(import)
                /\ UNCHANGED <<state, spoiled>>
           ELSE /\ state' = "failed" /\ import' = <<>>
                /\ spoiled' = (spoiled \/ ~ok)
    /\ UNCHANGED <<under, files, listing>>

ImportEnds ==
    /\ state = "importing" /\ import = <<>>
    /\ state' = "done"
    /\ UNCHANGED <<under, files, listing, import, spoiled>>

Next ==
    \/ \E x \in Things, y \in Things \cup {Nowhere} : Change(x, y)
    \/ ExportStarts \/ ExportEnds \/ ImportStarts \/ ImportEnds
    \/ \E ok \in BOOLEAN : Import(ok) \/ (\E K \in Kinds : Export(K, ok))

Spec == Init /\ [][Next]_vars

-----------------------------------------------------------------------------
(* The files that exports have left can be imported whole, though some are *)
(* of an earlier export and of things that are gone or moved, unless       *)
(* something changed during an export, or could not be read or written.    *)
ExportIsWhole == state = "failed" => spoiled
=============================================================================
