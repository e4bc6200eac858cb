---------------------------- MODULE ServerProofs ----------------------------
(***************************************************************************)
(* The theorems about the server's components: for each of them an         *)
(* inductive invariant, that it holds at first and after every step of the *)
(* component, and that every behaviour of Server is one of the component   *)
(* (the XSteps lemmas), so that what the invariant says is true of it.     *)
(***************************************************************************)
EXTENDS Server, SequenceTheorems, FoldProofs, TLAPS

-----------------------------------------------------------------------------
(* The packages.  What settles a package is an operation that nobody       *)
(* disturbs, so the invariant says what such an operation has done at each *)
(* place where it waits (Progress), and that a package no operation is at  *)
(* work on is as its list entry says (Rests), until the starting server    *)
(* comes to it (Pending).  What the gateway is told needs more: several    *)
(* reloads fill one dictionary, and each actor is in it or comes with one  *)
(* of them (Covered).                                                      *)

Op == [do : Pk!Works, pkg : Pkgs, at : Pk!Places, todo : SUBSET Pkgs, names : SUBSET Pkgs,
       alone : BOOLEAN]
Active(c) == ops[c].at \notin {"idle", "next"}

\* No operation on p has done anything yet.
Quiet(p) == \A c \in Pk!Threads : ops[c].pkg = p => ops[c].at \in {"idle", "next", "hook"}

\* The starting server has still to install p.
Pending(p) ==
    \/ phase = "down"
    \/ /\ phase = "starting"
       /\ p \in ops[Starter].todo \/ (ops[Starter].do = "boot" /\ p # Chatflows)

Ready(p) == (\A r \in Pk!Parts(p) \cup {"pages"} : p \in reg[r]) /\ p \in live
Gone(p) == \A r \in Pk!Registered : p \notin reg[r]
Rests(p) ==
    /\ p \in listed /\ ~Pending(p) => Ready(p)
    /\ p \notin listed => Gone(p)

\* What an operation that is alone on its package has done.
Progress(c) ==
    LET p == ops[c].pkg
        at == ops[c].at
    IN /\ at \in {"serve", "list", "info", "nginx", "save"} =>
            \A r \in Pk!Parts(p) : p \in reg[r]
       /\ at \in {"list", "info", "nginx", "save"} => p \in reg["pages"]
       /\ at = "save" => p \in live
       /\ ops[c].do # "add" => p \in listed
       /\ ops[c].do = "delete" => p \notin reg["bottle"]
       /\ at \in {"unregister", "uninstall"} => p \notin reg["services"]
       /\ at = "uninstall" => Gone(p)

\* Packages whose actors the gateway must know when no reload is under way.
Told == {"list", "info", "nginx", "save"}
Shows(c) == Active(c) /\ ops[c].alone /\ ops[c].at \in Told
Promised(p) ==
    \/ Quiet(p) /\ p \notin mixed /\ p \in listed /\ ~Pending(p)
    \/ \E c \in Pk!Threads : Shows(c) /\ ops[c].pkg = p
Covers(c, p) == ops[c].at = "list" \/ (ops[c].at = "info" /\ p \in loaded \cup ops[c].names)
Covered(p) ==
    IF Pk!Reloading THEN \E c \in Pk!Threads : Covers(c, p) ELSE p \in Pk!Shown

CallerFits(c) ==
    /\ ops[c].at # "next"
    /\ ops[c].at = "stop" => ops[c].do \in {"delete", "reload"}
    /\ ops[c].at \in {"unregister", "uninstall"} => ops[c].do = "delete"
    /\ ops[c].do = "delete" =>
         ops[c].pkg # Chatflows /\ ops[c].at \in {"stop", "unregister", "uninstall"}
    /\ Active(c) /\ ops[c].alone => phase = "up"

StarterFits ==
    /\ phase = "starting" <=> (ops[Starter].at # "idle")
    /\ ops[Starter].at \in {"idle", "next", "register", "serve", "list", "info", "nginx"}
    /\ phase = "starting" => ops[Starter].do \in {"boot", "boot_rest"}

\* Two operations on one package know of each other, and whoever is not alone has
\* spoiled its package.
Apart ==
    /\ \A c \in Pk!Threads : Active(c) /\ ~ops[c].alone => ops[c].pkg \in mixed
    /\ \A c, d \in Pk!Threads :
         c # d /\ Active(c) /\ Active(d) /\ ops[c].pkg = ops[d].pkg => ~ops[c].alone

Server0 ==
    /\ phase = "down" => reg = Pk!Nothing /\ \A c \in Pk!Threads : ops[c] = Pk!Idle
    /\ phase # "down" => conf = reg["pages"]

InOrder ==
    /\ Pk!TypeOK
    /\ Server0
    /\ StarterFits
    /\ \A c \in Callers : CallerFits(c)
    /\ Apart
    /\ \A c \in Pk!Threads : Active(c) /\ ops[c].alone => Progress(c)
    /\ \A p \in Pkgs : p \notin mixed /\ Quiet(p) => Rests(p)
PackagesInv == InOrder /\ \A p \in Pkgs : Promised(p) => Covered(p)

-----------------------------------------------------------------------------
(* Steps of one thread.                                                    *)

\* A thread that does not take the step may lose what it had alone, no more.
Same(d) ==
    /\ ops'[d].at = ops[d].at /\ ops'[d].do = ops[d].do /\ ops'[d].pkg = ops[d].pkg
    /\ ops'[d].todo = ops[d].todo /\ ops'[d].names = ops[d].names
    /\ ops'[d].alone => ops[d].alone

\* Package q keeps its place in every registry.
Keeps(q) ==
    /\ \A r \in Pk!Registered : q \in reg'[r] <=> q \in reg[r]
    /\ q \in reg["pages"] => q \in reg'["pages"]
    /\ q \in listed' <=> q \in listed
    /\ q \in reg["pages"] /\ q \in live => q \in live'

\* Thread c takes a step that touches no packages but those in X.
OthersStay(c, X) ==
    \A d \in Pk!Threads \ {c} :
      /\ Same(d)
      /\ Active(d) /\ ~ops'[d].alone => ops[d].pkg \in mixed'
      /\ Active(d) /\ ops[d].pkg \in X => ~ops'[d].alone
Untouched(q) ==
    /\ Keeps(q)
    /\ q \in mixed => q \in mixed'
    /\ q \in listed /\ Pending(q) => Pending(q)'
    /\ Quiet(q)' => Quiet(q)
Settles(q) ==
    q \notin mixed' /\ Quiet(q)' =>
      Rests(q)' /\ (q \in listed' /\ ~Pending(q)' => Promised(q))
Goes(c) ==
    Active(c)' =>
      /\ ~ops'[c].alone => ops'[c].pkg \in mixed'
      /\ ops'[c].alone => Progress(c)'
      /\ Shows(c)' => ops'[c].at = "list" \/ Promised(ops'[c].pkg)
      /\ \A d \in Pk!Threads \ {c} :
           Active(d) /\ ops[d].pkg = ops'[c].pkg => ~ops'[c].alone /\ ~ops'[d].alone
StepOf(c, X) ==
    /\ OthersStay(c, X)
    /\ \A q \in Pkgs \ X : Untouched(q)
    /\ \A q \in X : Settles(q)
    /\ Goes(c)

\* All is in order after c's step, and only what c has begun to list is promised anew.
Kept(c) ==
    /\ InOrder'
    /\ \A p \in Pkgs : Promised(p)' => Promised(p) \/ ops'[c].at = "list"

\* Such a step keeps the packages and the threads in order.
LEMMA StepKeeps ==
  ASSUME PackagesInv, Pk!TypeOK', Server0', StarterFits',
         NEW c \in Pk!Threads, NEW X \in SUBSET Pkgs, StepOf(c, X),
         phase' \in {phase, "up"}, c \in Callers => CallerFits(c)'
  PROVE  Kept(c)
  <1>1. \A d \in Pk!Threads \ {c} : Same(d) /\ Active(d)' = Active(d)
    BY DEF StepOf, OthersStay, Same, Active
  <1>2. ops \in [Pk!Threads -> Op] /\ ops' \in [Pk!Threads -> Op]
    BY DEF PackagesInv, InOrder, Pk!TypeOK, Op
  <1>3. ASSUME NEW d \in Callers PROVE CallerFits(d)'
    <2>1. CASE d = c
      BY <2>1
    <2>2. CASE d # c
      <3>1. d \in Pk!Threads \ {c}
        BY <2>2 DEF Pk!Threads
      <3>2. CallerFits(d) /\ Same(d)
        BY <1>1, <3>1 DEF PackagesInv, InOrder
      <3> QED  BY <3>2 DEF CallerFits, Same, Active
    <2> QED  BY <2>1, <2>2
  <1>4. Apart'
    <2>1. ASSUME NEW d \in Pk!Threads, Active(d)', ~ops'[d].alone PROVE ops'[d].pkg \in mixed'
      BY <1>1, <2>1 DEF StepOf, OthersStay, Goes, Same
    <2>2. ASSUME NEW d \in Pk!Threads, NEW e \in Pk!Threads, d # e, Active(d)', Active(e)',
                 ops'[d].pkg = ops'[e].pkg
          PROVE  ~ops'[d].alone
      <3>1. CASE d = c
        BY <1>1, <2>2, <3>1 DEF StepOf, Goes, Same
      <3>2. CASE e = c
        BY <1>1, <2>2, <3>2 DEF StepOf, Goes, Same
      <3>3. CASE d # c /\ e # c
        BY <1>1, <2>2, <3>3 DEF PackagesInv, InOrder, Apart, Same
      <3> QED  BY <3>1, <3>2, <3>3
    <2> QED  BY <2>1, <2>2 DEF Apart
  <1>5. ASSUME NEW d \in Pk!Threads, Active(d)', ops'[d].alone PROVE Progress(d)'
    <2>1. CASE d = c
      BY <1>5, <2>1 DEF StepOf, Goes
    <2>2. CASE d # c
      <3>1. Same(d) /\ Active(d) /\ ops[d].alone
        BY <1>1, <1>5, <2>2 DEF Same
      <3>2. Progress(d) /\ ops[d].pkg \in Pkgs
        BY <1>2, <3>1 DEF PackagesInv, InOrder, Op
      <3>3. ops[d].pkg \notin X
        BY <1>5, <2>2, <3>1 DEF StepOf, OthersStay
      <3>4. Keeps(ops[d].pkg)
        BY <3>2, <3>3 DEF StepOf, Untouched
      <3>5. Pk!Parts(ops[d].pkg) \subseteq Pk!Registered
        BY DEF Pk!Parts
      <3> QED  BY <3>1, <3>2, <3>4, <3>5 DEF Progress, Keeps, Same, Gone, Pk!Registered
    <2> QED  BY <2>1, <2>2
  <1>6. ASSUME NEW p \in Pkgs, p \notin mixed', Quiet(p)' PROVE Rests(p)'
    <2>1. CASE p \in X
      BY <1>6, <2>1 DEF StepOf, Settles
    <2>2. CASE p \notin X
      <3>1. Untouched(p)
        BY <2>2 DEF StepOf
      <3>2. Rests(p)
        BY <1>6, <3>1 DEF PackagesInv, InOrder, Untouched
      <3>3. Pk!Parts(p) \subseteq Pk!Registered
        BY DEF Pk!Parts
      <3> QED  BY <3>1, <3>2, <3>3 DEF Rests, Untouched, Keeps, Ready, Gone
    <2> QED  BY <2>1, <2>2
  <1>7. ASSUME NEW p \in Pkgs, Promised(p)' PROVE Promised(p) \/ ops'[c].at = "list"
    <2>1. CASE Quiet(p)' /\ p \notin mixed' /\ p \in listed' /\ ~Pending(p)'
      <3>1. CASE p \in X
        BY <2>1, <3>1 DEF StepOf, Settles
      <3>2. CASE p \notin X
        BY <2>1, <3>2 DEF StepOf, Untouched, Promised, Keeps
      <3> QED  BY <3>1, <3>2
    <2>2. ASSUME NEW d \in Pk!Threads, Shows(d)', ops'[d].pkg = p
          PROVE  Promised(p) \/ ops'[c].at = "list"
      <3>1. CASE d = c
        BY <2>2, <3>1 DEF StepOf, Goes, Shows
      <3>2. CASE d # c
        <4>1. Shows(d) /\ ops[d].pkg = p
          BY <1>1, <2>2, <3>2 DEF Shows, Same
        <4> QED  BY <4>1 DEF Promised
      <3> QED  BY <3>1, <3>2
    <2> QED  BY <1>7, <2>1, <2>2 DEF Promised
  <1> QED  BY <1>3, <1>4, <1>5, <1>6, <1>7 DEF Kept, InOrder

\* A step that is none of a reload leaves the gateway with what it is told.
LEMMA StepTells ==
  ASSUME PackagesInv, NEW c \in Pk!Threads, Kept(c), \A d \in Pk!Threads \ {c} : Same(d),
         ~Pk!Reloads(c), ~Pk!Reloads(c)', UNCHANGED Pk!client
  PROVE  PackagesInv'
  <1>1. ASSUME NEW p \in Pkgs, Promised(p)' PROVE Covered(p)'
    <2>1. \A d \in Pk!Threads : Pk!Reloads(d)' = Pk!Reloads(d) /\ Covers(d, p)' = Covers(d, p)
      BY DEF Pk!Reloads, Covers, Same, Pk!client
    <2>2. Pk!Shown' = Pk!Shown
      BY DEF Pk!Shown, Pk!client
    <2>3. Covered(p)
      BY <1>1 DEF Kept, PackagesInv, Pk!Reloads
    <2> QED  BY <2>1, <2>2, <2>3 DEF Covered, Pk!Reloading
  <1> QED  BY <1>1 DEF PackagesInv, Kept

\* Others go on as they were, but those at work on a package in lost are not alone now.
Loses(c, lost) ==
    \A d \in Pk!Threads \ {c} :
      Same(d) /\ (Active(d) => (ops'[d].alone <=> ops[d].alone /\ ops[d].pkg \notin lost))

Continues(c) ==
    /\ ops'[c].at \notin {"idle", "next", "hook"}
    /\ ops'[c].pkg = ops[c].pkg /\ ops'[c].alone = ops[c].alone
    /\ ops[c].alone => Progress(c)'
    /\ ops[c].alone /\ ops'[c].at \in Told => ops[c].at \in Told \/ ops'[c].at = "list"
    /\ ops[c].pkg \in mixed => ops[c].pkg \in mixed'
Ends(c) ==
    /\ ~Active(c)' /\ \A q \in Pkgs : q = ops[c].pkg => Settles(q)
    /\ ~ops[c].alone => ops[c].pkg \in mixed'
StarterStays(c) ==
    c = Starter =>
      /\ ops'[c].todo = ops[c].todo /\ ops'[c].do = ops[c].do
      /\ ops'[c].at \in {"next", "register", "serve", "list", "info", "nginx"}

\* The steps of an operation between its first and its last.
LEMMA WorkKeeps ==
  ASSUME PackagesInv, Pk!TypeOK', NEW c \in Pk!Threads, Active(c), NEW lost \in SUBSET Pkgs,
         NEW X \in SUBSET Pkgs, X = {ops[c].pkg} \cup lost, Loses(c, lost), UNCHANGED phase, conf' = reg'["pages"], lost \subseteq mixed',
         \A q \in Pkgs \ X : Keeps(q) /\ (q \in mixed => q \in mixed'),
         c \in Callers => CallerFits(c)', StarterStays(c),
         Continues(c) \/ Ends(c)
  PROVE  Kept(c)
  <1> DEFINE p == ops[c].pkg
  <1>1. ops \in [Pk!Threads -> Op] /\ ops' \in [Pk!Threads -> Op]
    BY DEF PackagesInv, InOrder, Pk!TypeOK, Op
  <1>2. p \in Pkgs /\ Starter \in Pk!Threads
    BY <1>1 DEF Op, Pk!Threads
  <1>3. phase # "down"
    BY DEF PackagesInv, InOrder, Server0, Active, Pk!Idle
  <1>4. \A d \in Pk!Threads \ {c} : Active(d) /\ ops[d].pkg = p => ~ops[c].alone /\ ~ops[d].alone
    BY DEF PackagesInv, InOrder, Apart
  <1>5. p \in mixed /\ p \notin mixed' => ops[c].alone
    BY DEF Continues, Ends
  <1>6. OthersStay(c, X)
    <2> SUFFICES ASSUME NEW d \in Pk!Threads \ {c}
                 PROVE  /\ Same(d)
                        /\ Active(d) /\ ~ops'[d].alone => ops[d].pkg \in mixed'
                        /\ Active(d) /\ ops[d].pkg \in X => ~ops'[d].alone
      BY DEF OthersStay
    <2>1. Same(d) /\ (Active(d) => (ops'[d].alone <=> ops[d].alone /\ ops[d].pkg \notin lost))
      BY DEF Loses
    <2>2. Active(d) /\ ~ops[d].alone => ops[d].pkg \in mixed
      BY DEF PackagesInv, InOrder, Apart
    <2>3. ops[d].pkg \in Pkgs
      BY <1>1 DEF Op
    <2> QED  BY <1>4, <1>5, <2>1, <2>2, <2>3
  <1>7. ASSUME NEW q \in Pkgs \ X PROVE Untouched(q)
    <2>1. Quiet(q)' => Quiet(q)
      BY <1>7 DEF Loses, Quiet, Same
    <2>2. Pending(q)' = Pending(q)
      <3>1. ops'[Starter].todo = ops[Starter].todo /\ ops'[Starter].do = ops[Starter].do
        BY <1>2 DEF Loses, Same, StarterStays
      <3> QED  BY <3>1 DEF Pending
    <2> QED  BY <1>7, <2>1, <2>2 DEF Untouched
  <1>8. ASSUME NEW q \in X PROVE Settles(q)
    <2>1. CASE q \in lost
      BY <2>1 DEF Settles
    <2>2. CASE q = p /\ Continues(c)
      BY <1>1, <2>2 DEF Settles, Continues, Quiet
    <2>3. CASE q = p /\ Ends(c)
      BY <2>3 DEF Ends
    <2> QED  BY <1>8, <2>1, <2>2, <2>3
  <1>9. Goes(c)
    <2>1. CASE Ends(c)
      BY <2>1 DEF Ends, Goes
    <2>2. CASE Continues(c)
      <3>1. ~ops[c].alone => p \in mixed
        BY DEF PackagesInv, InOrder, Apart
      <3>2. ops[c].alone /\ ops[c].at \in Told => Promised(p)
        BY DEF Promised, Shows
      <3>3. \A d \in Pk!Threads \ {c} : ops'[d].alone => ops[d].alone
        BY DEF Loses, Same
      <3> QED  BY <1>4, <2>2, <3>1, <3>2, <3>3 DEF Continues, Goes, Shows
    <2> QED  BY <2>1, <2>2
  <1>10. Server0'
    BY <1>3 DEF Server0
  <1>11. StarterFits'
    <2>1. CASE c = Starter
      BY <1>3, <2>1 DEF PackagesInv, InOrder, StarterFits, StarterStays, Active
    <2>2. CASE c # Starter
      <3>1. Same(Starter)
        BY <1>2, <2>2 DEF Loses
      <3> QED  BY <3>1 DEF PackagesInv, InOrder, StarterFits, Same
    <2> QED  BY <2>1, <2>2
  <1>12. StepOf(c, X)
    BY <1>6, <1>7, <1>8, <1>9 DEF StepOf
  <1> QED  BY <1>2, <1>10, <1>11, <1>12, StepKeeps

\* The first step of an operation: it is alone if it meets no other one.
Meets(c, p) == \E d \in Pk!Threads \ {c} : Active(d) /\ ops[d].pkg = p

\* An operation that takes up a package keeps the invariant, if it knows whom it meets.
LEMMA EnterKeeps ==
  ASSUME PackagesInv, Pk!TypeOK', NEW c \in Pk!Threads, ~Active(c), NEW p \in Pkgs,
         NEW X \in SUBSET Pkgs, p \in X, Loses(c, X), phase # "down", UNCHANGED phase,
         conf' = reg'["pages"], X \ {p} \subseteq mixed', mixed \subseteq mixed',
         ops'[c].pkg = p, ops'[c].at \in {"hook", "register", "stop"},
         ops'[c].at = "hook" => c # Starter /\ Keeps(p),
         Meets(c, p) => ~ops'[c].alone, ~ops'[c].alone => p \in mixed',
         ops'[c].alone => Progress(c)',
         \A q \in Pkgs \ X : Keeps(q),
         c \in Callers => CallerFits(c)',
         c = Starter => /\ ops'[c].todo = ops[c].todo \ {p} /\ ops'[c].do = ops[c].do
                        /\ ops'[c].at = "register" /\ ops[c].at = "next"
  PROVE  Kept(c)
  <1>1. ops \in [Pk!Threads -> Op] /\ ops' \in [Pk!Threads -> Op]
    BY DEF PackagesInv, InOrder, Pk!TypeOK, Op
  <1>2. Starter \in Pk!Threads
    BY DEF Pk!Threads
  <1>3. OthersStay(c, X)
    <2> SUFFICES ASSUME NEW d \in Pk!Threads \ {c}
                 PROVE  /\ Same(d)
                        /\ Active(d) /\ ~ops'[d].alone => ops[d].pkg \in mixed'
                        /\ Active(d) /\ ops[d].pkg \in X => ~ops'[d].alone
      BY DEF OthersStay
    <2>1. /\ Same(d)
          /\ Active(d) => (ops'[d].alone <=> ops[d].alone /\ ops[d].pkg \notin X)
      BY DEF Loses
    <2>2. Active(d) /\ ~ops[d].alone => ops[d].pkg \in mixed
      BY DEF PackagesInv, InOrder, Apart
    <2>3. Active(d) /\ ops[d].pkg = p => p \in mixed'
      BY DEF Meets
    <2> QED  BY <2>1, <2>2, <2>3
  <1>4. \A q \in Pkgs : Quiet(q)' => Quiet(q)
    BY DEF Loses, Quiet, Same, Active
  <1>5. \A q \in Pkgs \ {p} : Pending(q)' = Pending(q)
    <2>1. CASE c = Starter
      BY <2>1 DEF Pending
    <2>2. CASE c # Starter
      BY <1>2, <2>2 DEF Pending, Loses, Same
    <2> QED  BY <2>1, <2>2
  <1>6. ASSUME NEW q \in Pkgs \ X PROVE Untouched(q)
    BY <1>4, <1>5, <1>6 DEF Untouched
  <1>7. ASSUME NEW q \in X PROVE Settles(q)
    <2>1. CASE q \in X \ {p}
      BY <2>1 DEF Settles
    <2>2. CASE q = p /\ ops'[c].at # "hook"
      BY <1>1, <2>2 DEF Settles, Quiet
    <2>3. CASE q = p /\ ops'[c].at = "hook"
      <3> SUFFICES ASSUME p \notin mixed', Quiet(p)'
                   PROVE  Rests(p)' /\ (p \in listed' /\ ~Pending(p)' => Promised(p))
        BY <2>3 DEF Settles
      <3>1. Rests(p) /\ Quiet(p) /\ p \notin mixed
        BY <1>4 DEF PackagesInv, InOrder
      <3>2. Pending(p)' = Pending(p)
        BY <1>2, <2>3 DEF Pending, Loses, Same
      <3>3. Pk!Parts(p) \subseteq Pk!Registered
        BY DEF Pk!Parts
      <3> QED  BY <2>3, <3>1, <3>2, <3>3 DEF Rests, Keeps, Ready, Gone, Promised
    <2> QED  BY <1>7, <2>1, <2>2, <2>3
  <1>8. Goes(c)
    <2>1. ops'[c].at \notin Told
      BY DEF Told
    <2>2. \A d \in Pk!Threads \ {c} : Active(d) /\ ops[d].pkg = p => ~ops'[c].alone /\ ~ops'[d].alone
      BY DEF Meets, Loses
    <2> QED  BY <2>1, <2>2 DEF Goes, Shows
  <1>9. Server0'
    BY DEF Server0
  <1>10. StarterFits'
    <2>1. CASE c = Starter
      BY <2>1 DEF PackagesInv, InOrder, StarterFits
    <2>2. CASE c # Starter
      <3>1. Same(Starter)
        BY <1>2, <2>2 DEF Loses
      <3> QED  BY <3>1 DEF PackagesInv, InOrder, StarterFits, Same
    <2> QED  BY <2>1, <2>2
  <1>11. StepOf(c, X)
    BY <1>3, <1>6, <1>7, <1>8 DEF StepOf
  <1> QED  BY <1>2, <1>9, <1>10, <1>11, StepKeeps

-----------------------------------------------------------------------------
(* What the model's helpers do to the operations.                          *)

OpsTyped == ops \in [Pk!Threads -> Op]

\* The operations of a typed state are operations.
LEMMA Typed == Pk!TypeOK => OpsTyped /\ Pk!Idle \in Op
  BY ServerAssumption
     DEF Pk!TypeOK, OpsTyped, Op, Pk!Idle, ServerAssumption, Pk!NamesAssumption, Pk!Works, Pk!Places

\* An operation that goes on leaves the others as they are.
LEMMA OneGoes ==
  ASSUME OpsTyped, NEW c \in Pk!Threads, NEW r \in Op, ops' = [ops EXCEPT ![c] = r]
  PROVE  OpsTyped' /\ ops'[c] = r /\ Loses(c, {})
  BY DEF OpsTyped, Loses, Same

\* Going to another place does.
LEMMA GotoOps ==
  ASSUME OpsTyped, NEW c \in Pk!Threads, NEW at \in Pk!Places, Pk!Goto(c, at)
  PROVE  OpsTyped' /\ ops'[c] = [ops[c] EXCEPT !.at = at] /\ Loses(c, {})
  <1>1. ops[c] \in Op /\ [ops[c] EXCEPT !.at = at] \in Op
    BY DEF OpsTyped, Op
  <1> QED  BY <1>1, OneGoes DEF Pk!Goto

\* Disturbing others takes their being alone from them, and nothing else.
LEMMA DisturbOps ==
  ASSUME OpsTyped, NEW c \in Pk!Threads, NEW at \in Pk!Places, NEW lost, Pk!Disturb(c, at, lost)
  PROVE  /\ OpsTyped' /\ ops'[c] = [ops[c] EXCEPT !.at = at] /\ Loses(c, lost)
         /\ mixed' = mixed \cup lost
  BY DEF OpsTyped, Op, Pk!Disturb, Loses, Same, Active, Pk!At

\* What raises ends a call.
LEMMA RaisesOps ==
  ASSUME OpsTyped, Pk!Idle \in Op, NEW c \in Pk!Threads, NEW lost, Pk!Raises(c, lost)
  PROVE  /\ c \in Callers /\ OpsTyped' /\ ops'[c] = Pk!Idle /\ Loses(c, lost)
         /\ mixed' = mixed \cup {ops[c].pkg} \cup lost
  BY DEF OpsTyped, Op, Pk!Raises, Loses, Same, Active

\* An operation that takes up a package is alone on it only if it meets nobody.
LEMMA EnteredOps ==
  ASSUME OpsTyped, NEW c \in Pk!Threads, NEW entry \in Op, Pk!Entered(c, entry)
  PROVE  LET p == entry.pkg
         IN  /\ OpsTyped' /\ Loses(c, {p})
             /\ ops'[c] = [entry EXCEPT !.alone = ops'[c].alone]
             /\ ops'[c].alone => ~Meets(c, p) /\ (phase = "up" \/ c = Starter)
             /\ Meets(c, p) \/ ~ops'[c].alone => p \in mixed'
             /\ mixed \subseteq mixed' /\ mixed' \subseteq mixed \cup {p}
  <1> DEFINE p == entry.pkg
             others == Pk!On(p) \ {c}
             free == others = {} /\ (phase = "up" \/ c = Starter)
  <1>1. others = {d \in Pk!Threads \ {c} : Active(d) /\ ops[d].pkg = p}
    BY DEF Pk!On, Active
  <1>2. (others # {} <=> Meets(c, p)) /\ free \in BOOLEAN
    BY <1>1 DEF Meets
  <1>3. /\ ops' = [d \in Pk!Threads |-> IF d = c THEN [entry EXCEPT !.alone = free]
                                        ELSE IF d \in others THEN [ops[d] EXCEPT !.alone = FALSE]
                                        ELSE ops[d]]
        /\ mixed' = IF free THEN mixed ELSE mixed \cup {p}
    BY DEF Pk!Entered
  <1>4. [entry EXCEPT !.alone = free] \in Op /\ [entry EXCEPT !.alone = free].alone = free
    BY <1>2 DEF Op
  <1> HIDE DEF free
  <1>5. ops'[c] = [entry EXCEPT !.alone = free] /\ ops'[c].alone = free
    BY <1>3, <1>4
  <1>6. OpsTyped'
    BY <1>3, <1>4 DEF OpsTyped, Op
  <1>7. Loses(c, {p})
    BY <1>1, <1>3 DEF OpsTyped, Op, Loses, Same
  <1> QED  BY <1>2, <1>3, <1>5, <1>6, <1>7 DEF free

-----------------------------------------------------------------------------
(* The operations, place by place.                                         *)

Facts == PackagesInv /\ OpsTyped /\ Pk!Idle \in Op /\ Pk!TypeOK

\* What the invariant says, in the form the steps use.
LEMMA FactsHold == PackagesInv => Facts
  BY Typed DEF Facts, PackagesInv, InOrder

\* Add keeps the invariant.
LEMMA AddKeeps ==
  ASSUME PackagesInv, NEW c \in Callers, NEW p \in Pkgs, Pk!Add(c, p)
  PROVE  PackagesInv'
  <1> USE FactsHold DEF Facts
  <1> DEFINE entry == [Pk!Idle EXCEPT !.do = "add", !.pkg = p, !.at = "hook"]
  <1>1. /\ Pk!Entered(c, entry) /\ c \in Pk!Threads /\ ops[c].at = "idle"
        /\ UNCHANGED <<listed, phase, reg, conf, live, loaded, alias, seen>>
        /\ Chatflows \in reg["actors"] /\ calls < MaxCalls /\ calls' = calls + 1
    BY DEF Pk!Add, Pk!Called, Pk!At, Pk!Threads, Pk!client
  <1>2. entry \in Op /\ entry.pkg = p /\ entry.at = "hook" /\ entry.do = "add"
    BY DEF Op, Pk!Idle, Pk!Works, Pk!Places
  <1> HIDE DEF entry
  <1>3. /\ OpsTyped' /\ Loses(c, {p})
        /\ ops'[c] = [entry EXCEPT !.alone = ops'[c].alone]
        /\ ops'[c].alone => ~Meets(c, p) /\ (phase = "up" \/ c = Starter)
        /\ Meets(c, p) \/ ~ops'[c].alone => p \in mixed'
        /\ mixed \subseteq mixed' /\ mixed' \subseteq mixed \cup {p}
    BY <1>1, <1>2, EnteredOps
  <1>4. ops'[c].pkg = p /\ ops'[c].at = "hook" /\ ops'[c].do = "add"
    BY <1>2, <1>3 DEF Op
  <1>5. Pk!TypeOK'
    BY <1>1, <1>3, ServerAssumption
       DEF Pk!TypeOK, OpsTyped, Op, ServerAssumption, Pk!NamesAssumption
  <1>6. c # Starter
    BY ServerAssumption DEF ServerAssumption, Pk!NamesAssumption
  <1>7. phase # "down" /\ conf = reg["pages"]
    BY <1>1 DEF PackagesInv, InOrder, Server0, Pk!Nothing, Pk!Registries
  <1>8. \A q \in Pkgs : Keeps(q)
    BY <1>1 DEF Keeps
  <1>9. CallerFits(c)'
    BY <1>1, <1>3, <1>4, <1>6 DEF CallerFits
  <1>10. Progress(c)'
    BY <1>4 DEF Progress
  <1>11. ~Active(c) /\ UNCHANGED phase /\ conf' = reg'["pages"]
    BY <1>1, <1>7 DEF Active
  <1>12. Kept(c)
    <2>1. {p} \in SUBSET Pkgs /\ p \in {p} /\ {p} \ {p} \subseteq mixed'
      OBVIOUS
    <2> QED  BY <1>1, <1>3, <1>4, <1>5, <1>6, <1>7, <1>8, <1>9, <1>10, <1>11, <2>1, EnterKeeps
  <1> QED  BY <1>1, <1>3, <1>4, <1>12, StepTells DEF Pk!Reloads, Loses, Pk!client

\* Reload keeps the invariant.
LEMMA ReloadKeeps ==
  ASSUME PackagesInv, NEW c \in Callers, NEW p \in Pkgs, Pk!Reload(c, p)
  PROVE  PackagesInv'
  <1> USE FactsHold DEF Facts
  <1> DEFINE entry == [Pk!Idle EXCEPT !.do = "reload", !.pkg = p, !.at = "stop"]
  <1>1. /\ Pk!Entered(c, entry) /\ c \in Pk!Threads /\ ops[c].at = "idle"
        /\ UNCHANGED <<listed, phase, reg, conf, live, loaded, alias, seen>>
        /\ phase = "up" /\ p \in listed /\ calls < MaxCalls /\ calls' = calls + 1
    BY DEF Pk!Reload, Pk!Called, Pk!At, Pk!Threads, Pk!client
  <1>2. entry \in Op /\ entry.pkg = p /\ entry.at = "stop" /\ entry.do = "reload"
    BY DEF Op, Pk!Idle, Pk!Works, Pk!Places
  <1> HIDE DEF entry
  <1>3. /\ OpsTyped' /\ Loses(c, {p})
        /\ ops'[c] = [entry EXCEPT !.alone = ops'[c].alone]
        /\ ops'[c].alone => ~Meets(c, p) /\ (phase = "up" \/ c = Starter)
        /\ Meets(c, p) \/ ~ops'[c].alone => p \in mixed'
        /\ mixed \subseteq mixed' /\ mixed' \subseteq mixed \cup {p}
    BY <1>1, <1>2, EnteredOps
  <1>4. ops'[c].pkg = p /\ ops'[c].at = "stop" /\ ops'[c].do = "reload"
    BY <1>2, <1>3 DEF Op
  <1>5. Pk!TypeOK'
    BY <1>1, <1>3, ServerAssumption
       DEF Pk!TypeOK, OpsTyped, Op, ServerAssumption, Pk!NamesAssumption
  <1>6. c # Starter
    BY ServerAssumption DEF ServerAssumption, Pk!NamesAssumption
  <1>7. phase # "down" /\ conf = reg["pages"]
    BY <1>1 DEF PackagesInv, InOrder, Server0
  <1>8. \A q \in Pkgs : Keeps(q)
    BY <1>1 DEF Keeps
  <1>9. CallerFits(c)'
    BY <1>1, <1>3, <1>4, <1>6 DEF CallerFits
  <1>10. Progress(c)'
    BY <1>1, <1>4 DEF Progress
  <1>11. ~Active(c) /\ UNCHANGED phase /\ conf' = reg'["pages"]
    BY <1>1, <1>7 DEF Active
  <1>12. Kept(c)
    <2>1. {p} \in SUBSET Pkgs /\ p \in {p} /\ {p} \ {p} \subseteq mixed'
      OBVIOUS
    <2> QED  BY <1>1, <1>3, <1>4, <1>5, <1>6, <1>7, <1>8, <1>9, <1>10, <1>11, <2>1, EnterKeeps
  <1> QED  BY <1>1, <1>3, <1>4, <1>12, StepTells DEF Pk!Reloads, Loses, Pk!client

\* Delete keeps the invariant.
LEMMA DeleteKeeps ==
  ASSUME PackagesInv, NEW c \in Callers, NEW p \in Pkgs, Pk!Delete(c, p)
  PROVE  PackagesInv'
  <1> USE FactsHold DEF Facts
  <1> DEFINE lost == (reg["bottle"] \cap Pk!Clashing(p)) \ {p}
             X == lost \cup {p}
             free == Pk!On(p) \ {c} = {} /\ phase = "up"
             own == [Pk!Idle EXCEPT !.do = "delete", !.pkg = p, !.at = "stop", !.alone = free]
  <1>1. /\ c \in Pk!Threads /\ ops[c].at = "idle" /\ p # Chatflows /\ p \in listed
        /\ UNCHANGED <<listed, phase, conf, live, loaded, alias, seen>>
        /\ Chatflows \in reg["actors"] /\ calls < MaxCalls /\ calls' = calls + 1
        /\ reg' = [reg EXCEPT !["bottle"] = @ \ Pk!Clashing(p)]
        /\ mixed' = mixed \cup lost \cup (IF free THEN {} ELSE {p})
    BY DEF Pk!Delete, Pk!Called, Pk!Deletable, Pk!At, Pk!Threads, Pk!client
  <1>2. ops' = [d \in Pk!Threads |-> IF d = c THEN own
                                     ELSE IF ops[d].pkg \in X /\ ops[d].at # "idle"
                                     THEN [ops[d] EXCEPT !.alone = FALSE] ELSE ops[d]]
    BY DEF Pk!Delete, Pk!At
  <1>3. own \in Op /\ own.pkg = p /\ own.at = "stop" /\ own.do = "delete" /\ own.alone = free
    BY DEF Op, Pk!Idle, Pk!Works, Pk!Places
  <1>4. (Meets(c, p) => ~free) /\ free \in BOOLEAN
    BY DEF Meets, Pk!On, Active
  <1>5. reg \in [Pk!Registries -> SUBSET Pkgs] /\ lost \subseteq Pkgs /\ X \in SUBSET Pkgs
    BY DEF Pk!TypeOK, Pk!Registries
  <1> HIDE DEF own, free
  <1>6. ops'[c] = own /\ Loses(c, X) /\ OpsTyped'
    BY <1>1, <1>2, <1>3 DEF OpsTyped, Op, Loses, Same, Active
  <1>7. /\ reg' \in [Pk!Registries -> SUBSET Pkgs]
        /\ \A q \in Pkgs : /\ q \in reg'["bottle"] <=> q \in reg["bottle"] /\ q \notin Pk!Clashing(p)
                           /\ \A r \in Pk!Registries \ {"bottle"} : reg'[r] = reg[r]
    BY <1>1, <1>5 DEF Pk!Registries
  <1>8. Pk!TypeOK'
    BY <1>1, <1>5, <1>6, <1>7, ServerAssumption
       DEF Pk!TypeOK, OpsTyped, Op, ServerAssumption, Pk!NamesAssumption
  <1>9. c # Starter
    BY ServerAssumption DEF ServerAssumption, Pk!NamesAssumption
  <1>10. phase # "down" /\ UNCHANGED phase /\ ~Active(c) /\ conf' = reg'["pages"]
    BY <1>1, <1>7 DEF PackagesInv, InOrder, Server0, Pk!Nothing, Pk!Registries, Active
  <1>11. \A q \in Pkgs \ X : Keeps(q)
    BY <1>1, <1>7 DEF Keeps, Pk!Registries, Pk!Registered
  <1>12. CallerFits(c)'
    BY <1>1, <1>3, <1>6 DEF CallerFits, free
  <1>13. p \notin reg'["bottle"]
    BY <1>7 DEF Pk!Clashing
  <1>14. Progress(c)'
    BY <1>1, <1>3, <1>6, <1>13 DEF Progress
  <1>15. /\ ops'[c].pkg = p /\ ops'[c].at = "stop"
         /\ Meets(c, p) => ~ops'[c].alone
         /\ ~ops'[c].alone => p \in mixed'
         /\ X \ {p} \subseteq mixed' /\ mixed \subseteq mixed'
    BY <1>1, <1>3, <1>4, <1>6
  <1> HIDE DEF lost, X
  <1>16. p \in X
    BY DEF X
  <1>17. Kept(c)
    BY <1>1, <1>5, <1>6, <1>8, <1>9, <1>10, <1>11, <1>12, <1>14, <1>15, <1>16, EnterKeeps
  <1> QED  BY <1>1, <1>6, <1>15, <1>17, StepTells DEF Pk!Reloads, Loses, Pk!client

\* Nothing that c's step does not touch has changed.
LEMMA AllKeep ==
  ASSUME UNCHANGED <<listed, reg>>, live' = live \/ (live' = conf /\ conf = reg["pages"])
  PROVE  \A q \in Pkgs : Keeps(q)
  BY DEF Keeps

\* What holds of an operation that is under way.
LEMMA UnderWay ==
  ASSUME PackagesInv, NEW c \in Pk!Threads, Active(c)
  PROVE  /\ phase # "down" /\ conf = reg["pages"]
         /\ ops[c] \in Op /\ ops[c].pkg \in Pkgs
         /\ reg \in [Pk!Registries -> SUBSET Pkgs]
         /\ ops[c].alone => Progress(c)
         /\ ~ops[c].alone => ops[c].pkg \in mixed
         /\ c \in Callers => CallerFits(c) /\ c # Starter
         /\ c # Starter => c \in Callers
         /\ c = Starter =>
              /\ phase = "starting" /\ ops[c].do \in {"boot", "boot_rest"}
              /\ ops[c].at \in {"register", "serve", "list", "info", "nginx"}
  BY FactsHold, ServerAssumption
     DEF Facts, PackagesInv, InOrder, Server0, Active, Pk!Idle, OpsTyped, Op, Pk!TypeOK,
         Apart, StarterFits, ServerAssumption, Pk!NamesAssumption, Pk!Threads

\* The usual step: the operation goes on to the next place, the others do not notice.
LEMMA GoesOn ==
  ASSUME PackagesInv, NEW c \in Pk!Threads, Active(c), NEW r \in Op, ops' = [ops EXCEPT ![c] = r],
         r.pkg = ops[c].pkg, r.alone = ops[c].alone, r.do = ops[c].do, r.todo = ops[c].todo,
         r.at \notin {"idle", "next", "hook"},
         c = Starter => r.at \in {"register", "serve", "list", "info", "nginx"},
         Pk!TypeOK', UNCHANGED <<phase, mixed>>, conf' = reg'["pages"],
         \A q \in Pkgs \ {ops[c].pkg} : Keeps(q),
         c \in Callers => CallerFits(c)', ops[c].alone => Progress(c)',
         ops[c].alone /\ r.at \in Told => ops[c].at \in Told \/ r.at = "list"
  PROVE  Kept(c)
  <1>1. OpsTyped' /\ ops'[c] = r /\ Loses(c, {}) /\ ops[c].pkg \in Pkgs
    BY FactsHold, OneGoes, UnderWay DEF Facts
  <1>2. StarterStays(c)
    BY <1>1 DEF StarterStays
  <1>3. Continues(c)
    BY <1>1 DEF Continues
  <1> DEFINE X == {ops[c].pkg}
  <1>4. X \in SUBSET Pkgs /\ X = {ops[c].pkg} \cup {} /\ {} \in SUBSET Pkgs /\ {} \subseteq mixed'
    BY <1>1
  <1>5. \A q \in Pkgs \ X : Keeps(q) /\ (q \in mixed => q \in mixed')
    OBVIOUS
  <1> HIDE DEF X
  <1> QED  BY <1>1, <1>2, <1>3, <1>4, <1>5, WorkKeeps

\* InstallHook keeps the invariant.
LEMMA InstallHookKeeps ==
  ASSUME PackagesInv, NEW c \in Callers, Pk!InstallHook(c), UNCHANGED calls
  PROVE  PackagesInv'
  <1> USE FactsHold DEF Facts
  <1> DEFINE at == IF phase = "up" THEN "register" ELSE "save"
             p == ops[c].pkg
             r == [ops[c] EXCEPT !.at = at]
  <1>1. /\ c \in Pk!Threads /\ ops[c].at = "hook" /\ ops' = [ops EXCEPT ![c] = r]
        /\ UNCHANGED <<listed, phase, reg, conf, live, loaded, alias, seen, mixed, calls>>
    BY DEF Pk!InstallHook, Pk!At, Pk!Goto, Pk!Threads, Pk!client
  <1>2. at \in {"register", "save"} /\ (phase = "up" => at = "register") /\ Active(c)
    BY <1>1 DEF Active
  <1> HIDE DEF at
  <1>3. /\ r \in Op /\ r.at = at /\ r.pkg = p /\ r.alone = ops[c].alone
        /\ r.do = ops[c].do /\ r.todo = ops[c].todo
    BY <1>1, <1>2, UnderWay DEF Op, Pk!Places
  <1> HIDE DEF r
  <1>4. OpsTyped' /\ ops'[c] = r /\ Loses(c, {})
    BY <1>1, <1>3, OneGoes
  <1>5. Pk!TypeOK'
    BY <1>1, <1>4 DEF Pk!TypeOK, OpsTyped, Op
  <1>6. /\ CallerFits(c) /\ c # Starter /\ (ops[c].alone => Progress(c))
        /\ conf' = reg'["pages"]
    BY <1>1, <1>2, UnderWay
  <1>7. CallerFits(c)' /\ (ops[c].alone => at = "register")
    BY <1>1, <1>2, <1>3, <1>4, <1>6 DEF CallerFits, Active
  <1>8. ops[c].alone => Progress(c)'
    BY <1>1, <1>3, <1>4, <1>6, <1>7 DEF Progress, CallerFits
  <1>9. \A q \in Pkgs : Keeps(q)
    BY <1>1, AllKeep
  <1>10. Kept(c)
    BY <1>1, <1>2, <1>3, <1>5, <1>6, <1>7, <1>8, <1>9, GoesOn DEF Told
  <1> QED  BY <1>1, <1>2, <1>3, <1>4, <1>10, StepTells DEF Pk!Reloads, Loses, Pk!client

\* InstallHookFails keeps the invariant.
LEMMA InstallHookFailsKeeps ==
  ASSUME PackagesInv, NEW c \in Callers, Pk!InstallHookFails(c), UNCHANGED calls
  PROVE  PackagesInv'
  <1> USE FactsHold DEF Facts
  <1>0. PICK p \in Pkgs : p = ops[c].pkg
    BY DEF Pk!InstallHookFails, Pk!Threads, OpsTyped, Op
  <1> DEFINE X == {p}
  <1>1. /\ c \in Pk!Threads /\ ops[c].at = "hook" /\ ops' = [ops EXCEPT ![c] = Pk!Idle]
        /\ UNCHANGED <<listed, phase, reg, conf, live, loaded, alias, seen, mixed, calls>>
    BY DEF Pk!InstallHookFails, Pk!At, Pk!Threads, Pk!client
  <1>2. OpsTyped' /\ ops'[c] = Pk!Idle /\ Loses(c, {}) /\ Active(c) /\ Pk!Idle.at = "idle"
    BY <1>1, OneGoes DEF Active, Pk!Idle
  <1>3. Pk!TypeOK'
    BY <1>1, <1>2 DEF Pk!TypeOK, OpsTyped, Op
  <1>4. /\ c # Starter /\ conf' = reg'["pages"]
        /\ (~ops[c].alone => p \in mixed')
    BY <1>0, <1>1, <1>2, UnderWay
  <1>5. CallerFits(c)' /\ ~Active(c)'
    BY <1>2 DEF CallerFits, Active, Pk!Idle
  <1>6. \A q \in Pkgs : Keeps(q)
    BY <1>1, AllKeep
  <1>7. Settles(p)
    <2> SUFFICES ASSUME p \notin mixed', Quiet(p)'
                 PROVE  Rests(p)' /\ (p \in listed' /\ ~Pending(p)' => Promised(p))
      BY DEF Settles
    <2>1. Quiet(p) /\ p \notin mixed
      BY <1>0, <1>1, <1>2 DEF Quiet, Loses, Same
    <2>2. Pending(p)' = Pending(p)
      BY <1>1, <1>2, <1>4 DEF Pending, Loses, Same, Pk!Threads
    <2>3. Rests(p)
      BY <1>4, <2>1 DEF PackagesInv, InOrder
    <2> QED  BY <1>1, <2>1, <2>2, <2>3 DEF Rests, Ready, Gone, Promised
  <1>8. Ends(c) /\ StarterStays(c)
    BY <1>0, <1>1, <1>4, <1>5, <1>7 DEF Ends, StarterStays
  <1>9. X \in SUBSET Pkgs /\ X = {ops[c].pkg} \cup {} /\ {} \in SUBSET Pkgs /\ {} \subseteq mixed'
    BY <1>0
  <1>10. \A q \in Pkgs \ X : Keeps(q) /\ (q \in mixed => q \in mixed')
    BY <1>1, <1>6
  <1> HIDE DEF X
  <1>11. Kept(c)
    BY <1>1, <1>2, <1>3, <1>4, <1>5, <1>8, <1>9, <1>10, WorkKeeps
  <1> QED  BY <1>1, <1>2, <1>11, StepTells DEF Pk!Reloads, Loses, Pk!client

\* Steps of an operation that raises: what it did stays, and spoils its package.
LEMMA RaisesKeeps ==
  ASSUME PackagesInv, NEW c \in Pk!Threads, Active(c), NEW lost \in SUBSET Pkgs,
         Pk!Raises(c, lost), reg' \in [Pk!Registries -> SUBSET Pkgs], conf' = reg'["pages"],
         UNCHANGED <<listed, phase, live, loaded, alias, seen, calls>>,
         \A q \in Pkgs \ ({ops[c].pkg} \cup lost) : Keeps(q)
  PROVE  Kept(c) /\ \A d \in Pk!Threads \ {c} : Same(d)
  <1> USE FactsHold DEF Facts
  <1> DEFINE p == ops[c].pkg
             X == {p} \cup lost
  <1>1. /\ c \in Callers /\ OpsTyped' /\ ops'[c] = Pk!Idle /\ Loses(c, lost)
        /\ mixed' = mixed \cup {p} \cup lost /\ p \in Pkgs /\ c # Starter
    BY RaisesOps, UnderWay
  <1>2. Pk!TypeOK'
    <2>1. conf' \subseteq Pkgs
      BY DEF Pk!Registries
    <2> QED  BY <1>1, <2>1 DEF Pk!TypeOK, OpsTyped, Op
  <1>3. CallerFits(c)' /\ ~Active(c)'
    BY <1>1 DEF CallerFits, Active, Pk!Idle
  <1>4. Ends(c) /\ StarterStays(c)
    <2>1. \A q \in Pkgs : q = p => Settles(q)
      BY <1>1 DEF Settles
    <2> QED  BY <1>1, <1>3, <2>1 DEF Ends, StarterStays
  <1>5. X \in SUBSET Pkgs /\ lost \subseteq mixed'
    BY <1>1
  <1>6. \A q \in Pkgs \ X : Keeps(q) /\ (q \in mixed => q \in mixed')
    BY <1>1
  <1>7. X = {ops[c].pkg} \cup lost
    OBVIOUS
  <1> HIDE DEF X
  <1>8. Kept(c)
    BY <1>1, <1>2, <1>3, <1>4, <1>5, <1>6, <1>7, WorkKeeps
  <1> QED  BY <1>1, <1>8 DEF Loses

\* What registering some parts of p does to the registries.
LEMMA RegisterParts ==
  ASSUME reg \in [Pk!Registries -> SUBSET Pkgs], NEW p \in Pkgs,
         NEW parts \in SUBSET Pk!Registered, Pk!Register(p, parts)
  PROVE  /\ reg' \in [Pk!Registries -> SUBSET Pkgs]
         /\ reg'["pages"] = reg["pages"]
         /\ \A r \in parts : p \in reg'[r]
         /\ Pk!Silenced(p, parts) \in SUBSET Pkgs /\ p \notin Pk!Silenced(p, parts)
         /\ \A q \in Pkgs \ ({p} \cup Pk!Silenced(p, parts)) : \A r \in Pk!Registered :
              q \in reg'[r] <=> q \in reg[r]
  <1> DEFINE rest == [r \in Pk!Registries |->
                      IF r = "chats" /\ p = Chatflows /\ "actors" \in parts THEN {} ELSE reg[r]]
  <1>1. /\ reg' = [r \in Pk!Registries |-> IF r \in parts THEN rest[r] \cup {p} ELSE rest[r]]
        /\ Pk!Registered \subseteq Pk!Registries
        /\ Pk!Registries = Pk!Registered \cup {"pages"} /\ "pages" \notin Pk!Registered
        /\ "chats" \in Pk!Registries
    BY DEF Pk!Register, Pk!Registries, Pk!Registered
  <1>2. \A r \in Pk!Registries : rest[r] \subseteq reg[r] /\ reg[r] \subseteq Pkgs
    OBVIOUS
  <1>3. rest["pages"] = reg["pages"]
    BY <1>1
  <1>4. \A r \in Pk!Registries : \A q \in reg[r] \ rest[r] :
          r = "chats" /\ q \in {p} \cup Pk!Silenced(p, parts)
    BY DEF Pk!Silenced
  <1>5. Pk!Silenced(p, parts) \in SUBSET Pkgs /\ p \notin Pk!Silenced(p, parts)
    BY <1>1 DEF Pk!Silenced
  <1> HIDE DEF rest
  <1>6. \A r \in Pk!Registries : reg'[r] = IF r \in parts THEN rest[r] \cup {p} ELSE rest[r]
    BY <1>1
  <1>7. reg' \in [Pk!Registries -> SUBSET Pkgs]
    BY <1>1, <1>2
  <1>8. reg'["pages"] = reg["pages"]
    BY <1>1, <1>3, <1>6
  <1>9. \A r \in parts : p \in reg'[r]
    BY <1>1, <1>6
  <1>10. ASSUME NEW q \in Pkgs \ ({p} \cup Pk!Silenced(p, parts)), NEW r \in Pk!Registered
         PROVE  q \in reg'[r] <=> q \in reg[r]
    BY <1>1, <1>2, <1>4, <1>6
  <1> QED  BY <1>5, <1>7, <1>8, <1>9, <1>10

\* InstallRegisters keeps the invariant.
LEMMA InstallRegistersKeeps ==
  ASSUME PackagesInv, NEW c \in Pk!Threads, Pk!InstallRegisters(c), UNCHANGED calls
  PROVE  PackagesInv'
  <1> USE FactsHold DEF Facts
  <1>0. PICK p \in Pkgs : p = ops[c].pkg
    BY DEF OpsTyped, Op
  <1> DEFINE parts == Pk!Parts(p)
             lost == Pk!Silenced(p, parts)
             X == {p} \cup lost
  <1>1. /\ ops[c].at = "register" /\ Pk!Register(p, parts) /\ Pk!Disturb(c, "serve", lost)
        /\ UNCHANGED <<listed, phase, conf, live, loaded, alias, seen, calls>>
    BY <1>0 DEF Pk!InstallRegisters, Pk!At, Pk!client
  <1>2. Active(c) /\ parts \in SUBSET Pk!Registered /\ "serve" \in Pk!Places
    BY <1>1 DEF Active, Pk!Parts, Pk!Places
  <1>3. /\ reg \in [Pk!Registries -> SUBSET Pkgs] /\ conf = reg["pages"] /\ ops[c] \in Op
        /\ (ops[c].alone => Progress(c)) /\ (c \in Callers => CallerFits(c))
        /\ (c = Starter => ops[c].do \in {"boot", "boot_rest"}) /\ (c # Starter => c \in Callers)
    BY <1>2, UnderWay
  <1>4. /\ reg' \in [Pk!Registries -> SUBSET Pkgs] /\ reg'["pages"] = reg["pages"]
        /\ \A r \in parts : p \in reg'[r]
        /\ lost \in SUBSET Pkgs /\ p \notin lost
        /\ \A q \in Pkgs \ ({p} \cup lost) : \A r \in Pk!Registered : q \in reg'[r] <=> q \in reg[r]
    BY <1>1, <1>2, <1>3, RegisterParts
  <1>5. /\ OpsTyped' /\ ops'[c] = [ops[c] EXCEPT !.at = "serve"] /\ Loses(c, lost)
        /\ mixed' = mixed \cup lost
    BY <1>1, <1>2, DisturbOps
  <1> HIDE DEF parts, lost
  <1>6. /\ ops'[c].at = "serve" /\ ops'[c].pkg = p /\ ops'[c].alone = ops[c].alone
        /\ ops'[c].do = ops[c].do /\ ops'[c].todo = ops[c].todo
    BY <1>0, <1>3, <1>5 DEF Op
  <1>7. Pk!TypeOK'
    BY <1>1, <1>4, <1>5 DEF Pk!TypeOK, OpsTyped, Op
  <1>8. ops[c].do # "delete"
    BY <1>1, <1>3 DEF CallerFits
  <1>9. ops[c].alone => Progress(c)'
    BY <1>0, <1>1, <1>3, <1>4, <1>6, <1>8 DEF Progress, parts
  <1>10. Continues(c) /\ StarterStays(c)
    BY <1>0, <1>1, <1>5, <1>6, <1>9 DEF Continues, StarterStays, Told
  <1>11. c \in Callers => CallerFits(c)'
    BY <1>0, <1>1, <1>2, <1>3, <1>6, <1>8 DEF CallerFits
  <1>12. \A q \in Pkgs \ X : Keeps(q) /\ (q \in mixed => q \in mixed')
    BY <1>1, <1>4, <1>5 DEF Keeps
  <1>13. X \in SUBSET Pkgs /\ X = {ops[c].pkg} \cup lost /\ lost \subseteq mixed'
         /\ conf' = reg'["pages"]
    BY <1>0, <1>1, <1>3, <1>4, <1>5
  <1> HIDE DEF X
  <1>14. Kept(c)
    BY <1>1, <1>2, <1>4, <1>5, <1>7, <1>10, <1>11, <1>12, <1>13, WorkKeeps
  <1> QED  BY <1>1, <1>5, <1>6, <1>14, StepTells DEF Pk!Reloads, Loses, Pk!client

\* A raise that is none of a reload leaves the gateway with what it is told.
LEMMA RaiseTells ==
  ASSUME PackagesInv, NEW c \in Pk!Threads, Active(c), ~Pk!Reloads(c), NEW lost \in SUBSET Pkgs,
         Pk!Raises(c, lost), reg' \in [Pk!Registries -> SUBSET Pkgs], conf' = reg'["pages"],
         UNCHANGED <<listed, phase, live, loaded, alias, seen, calls>>,
         \A q \in Pkgs \ ({ops[c].pkg} \cup lost) : Keeps(q)
  PROVE  PackagesInv'
  <1>1. Kept(c) /\ \A d \in Pk!Threads \ {c} : Same(d)
    BY RaisesKeeps
  <1>2. ops'[c] = Pk!Idle
    BY FactsHold, RaisesOps DEF Facts
  <1> QED  BY <1>1, <1>2, StepTells DEF Pk!Reloads, Pk!Idle, Pk!client

\* InstallRegistersPart keeps the invariant.
LEMMA InstallRegistersPartKeeps ==
  ASSUME PackagesInv, NEW c \in Pk!Threads, Pk!InstallRegistersPart(c), UNCHANGED calls
  PROVE  PackagesInv'
  <1> USE FactsHold DEF Facts
  <1>0. PICK p \in Pkgs : p = ops[c].pkg
    BY DEF OpsTyped, Op
  <1>1. PICK parts \in Pk!Stages : Pk!Register(p, parts) /\ Pk!Raises(c, Pk!Silenced(p, parts))
    BY <1>0 DEF Pk!InstallRegistersPart
  <1> DEFINE lost == Pk!Silenced(p, parts)
  <1>2. /\ ops[c].at = "register"
        /\ UNCHANGED <<listed, phase, conf, live, loaded, alias, seen, calls>>
    BY DEF Pk!InstallRegistersPart, Pk!At, Pk!client
  <1>3. Active(c) /\ ~Pk!Reloads(c) /\ parts \in SUBSET Pk!Registered
    BY <1>2 DEF Active, Pk!Reloads, Pk!Stages, Pk!Registered
  <1>4. reg \in [Pk!Registries -> SUBSET Pkgs] /\ conf = reg["pages"]
    BY <1>3, UnderWay
  <1>5. /\ reg' \in [Pk!Registries -> SUBSET Pkgs] /\ reg'["pages"] = reg["pages"]
        /\ lost \in SUBSET Pkgs
        /\ \A q \in Pkgs \ ({p} \cup lost) : \A r \in Pk!Registered : q \in reg'[r] <=> q \in reg[r]
    BY <1>1, <1>3, <1>4, RegisterParts
  <1> HIDE DEF lost
  <1>6. Pk!Raises(c, lost) /\ conf' = reg'["pages"]
    BY <1>1, <1>2, <1>4, <1>5 DEF lost
  <1>7. \A q \in Pkgs \ ({ops[c].pkg} \cup lost) : Keeps(q)
    BY <1>0, <1>2, <1>5 DEF Keeps
  <1> QED  BY <1>2, <1>3, <1>5, <1>6, <1>7, RaiseTells

\* What writing nginx' files does.
LEMMA ApplyPages ==
  ASSUME reg \in [Pk!Registries -> SUBSET Pkgs], NEW p \in Pkgs, Pk!Apply(p)
  PROVE  /\ reg' \in [Pk!Registries -> SUBSET Pkgs] /\ conf' = reg'["pages"]
         /\ reg'["pages"] = reg["pages"] \cup {p}
         /\ \A r \in Pk!Registered : reg'[r] = reg[r]
  BY DEF Pk!Apply, Pk!WebsiteWith, Pk!Registries, Pk!Registered

\* InstallServesNot keeps the invariant.
LEMMA InstallServesNotKeeps ==
  ASSUME PackagesInv, NEW c \in Pk!Threads, Pk!InstallServesNot(c), UNCHANGED calls
  PROVE  PackagesInv'
  <1> USE FactsHold DEF Facts
  <1>0. PICK p \in Pkgs : p = ops[c].pkg
    BY DEF OpsTyped, Op
  <1>1. /\ ops[c].at = "serve" /\ Pk!Apply(p) /\ Pk!Raises(c, {})
        /\ UNCHANGED <<listed, phase, live, loaded, alias, seen, calls>>
    BY <1>0 DEF Pk!InstallServesNot, Pk!At, Pk!client
  <1>2. Active(c) /\ ~Pk!Reloads(c) /\ {} \in SUBSET Pkgs
    BY <1>1 DEF Active, Pk!Reloads
  <1>3. /\ reg' \in [Pk!Registries -> SUBSET Pkgs] /\ conf' = reg'["pages"]
        /\ reg'["pages"] = reg["pages"] \cup {p} /\ \A r \in Pk!Registered : reg'[r] = reg[r]
    BY <1>1, <1>2, UnderWay, ApplyPages
  <1>4. \A q \in Pkgs \ ({ops[c].pkg} \cup {}) : Keeps(q)
    BY <1>1, <1>3 DEF Keeps
  <1> QED  BY <1>1, <1>2, <1>3, <1>4, RaiseTells

\* StopServicesNot keeps the invariant.
LEMMA StopServicesNotKeeps ==
  ASSUME PackagesInv, NEW c \in Callers,
         Pk!StopServicesNot(c) \/ Pk!UninstallFails(c), UNCHANGED calls
  PROVE  PackagesInv'
  <1>1. /\ ops[c].at \in {"stop", "uninstall"} /\ Pk!Raises(c, {}) /\ c \in Pk!Threads
        /\ UNCHANGED <<listed, phase, reg, conf, live, loaded, alias, seen, calls>>
    BY DEF Pk!StopServicesNot, Pk!UninstallFails, Pk!At, Pk!client, Pk!Threads
  <1>2. Active(c) /\ ~Pk!Reloads(c) /\ {} \in SUBSET Pkgs
    BY <1>1 DEF Active, Pk!Reloads
  <1>3. reg' \in [Pk!Registries -> SUBSET Pkgs] /\ conf' = reg'["pages"]
    BY <1>1, <1>2, UnderWay
  <1>4. \A q \in Pkgs \ ({ops[c].pkg} \cup {}) : Keeps(q)
    BY <1>1, AllKeep
  <1> QED  BY <1>1, <1>2, <1>3, <1>4, RaiseTells

\* While a reload is listing the actors, every one of them is to come.
LEMMA ListsAll ==
  ASSUME NEW c \in Pk!Threads, Kept(c), ops'[c].at = "list"
  PROVE  PackagesInv'
  <1>1. ASSUME NEW p \in Pkgs PROVE Covered(p)'
    BY DEF Covered, Covers, Pk!Reloading, Pk!Reloads
  <1> QED  BY <1>1 DEF PackagesInv, Kept

\* InstallServes keeps the invariant.
LEMMA InstallServesKeeps ==
  ASSUME PackagesInv, NEW c \in Pk!Threads, Pk!InstallServes(c), UNCHANGED calls
  PROVE  PackagesInv'
  <1> USE FactsHold DEF Facts
  <1>0. PICK p \in Pkgs : p = ops[c].pkg
    BY DEF OpsTyped, Op
  <1> DEFINE r == [ops[c] EXCEPT !.at = "list"]
  <1>1. /\ ops[c].at = "serve" /\ Pk!Apply(p) /\ ops' = [ops EXCEPT ![c] = r]
        /\ UNCHANGED <<listed, phase, live, mixed, calls>>
        /\ loaded' = {} /\ alias' = FALSE /\ seen' = Pk!Shown
    BY <1>0 DEF Pk!InstallServes, Pk!At, Pk!Goto
  <1>2. Active(c)
    BY <1>1 DEF Active
  <1>3. /\ reg' \in [Pk!Registries -> SUBSET Pkgs] /\ conf' = reg'["pages"]
        /\ reg'["pages"] = reg["pages"] \cup {p} /\ \A x \in Pk!Registered : reg'[x] = reg[x]
    BY <1>1, <1>2, UnderWay, ApplyPages
  <1>4. /\ ops[c] \in Op /\ (ops[c].alone => Progress(c)) /\ (c \in Callers => CallerFits(c))
    BY <1>2, UnderWay
  <1>5. /\ r \in Op /\ r.at = "list" /\ r.pkg = p /\ r.alone = ops[c].alone
        /\ r.do = ops[c].do /\ r.todo = ops[c].todo
    BY <1>0, <1>4 DEF Op, Pk!Places
  <1> HIDE DEF r
  <1>6. OpsTyped' /\ ops'[c] = r
    BY <1>1, <1>5, OneGoes
  <1>7. Pk!TypeOK'
    <2>1. seen' \in SUBSET Pkgs /\ conf' \in SUBSET Pkgs
      BY <1>1, <1>3 DEF Pk!TypeOK, Pk!Shown, Pk!Registries
    <2> QED  BY <1>1, <1>3, <1>6, <2>1 DEF Pk!TypeOK, OpsTyped, Op
  <1>8. c \in Callers => CallerFits(c)'
    BY <1>1, <1>2, <1>4, <1>5, <1>6 DEF CallerFits, Active
  <1>9. ops[c].alone => Progress(c)'
    <2>1. c \in Callers => ops[c].do # "delete"
      BY <1>1, <1>4 DEF CallerFits
    <2>2. c \notin Callers => ops[c].do # "delete"
      BY <1>2, UnderWay
    <2>3. Pk!Parts(p) \subseteq Pk!Registered
      BY DEF Pk!Parts
    <2> QED  BY <1>0, <1>1, <1>3, <1>4, <1>5, <1>6, <2>1, <2>2, <2>3 DEF Progress
  <1>10. \A q \in Pkgs \ {ops[c].pkg} : Keeps(q)
    BY <1>0, <1>1, <1>3 DEF Keeps
  <1>11. Kept(c)
    BY <1>0, <1>1, <1>2, <1>3, <1>5, <1>7, <1>8, <1>9, <1>10, GoesOn
  <1> QED  BY <1>5, <1>6, <1>11, ListsAll

\* What the gateway must know is an actor that gedis has.
LEMMA PromisedIsThere ==
  ASSUME PackagesInv, NEW p \in Pkgs, Promised(p)
  PROVE  p \in reg["actors"]
  <1>1. "actors" \in Pk!Parts(p)
    BY DEF Pk!Parts, Pk!Registered
  <1>2. CASE Quiet(p) /\ p \notin mixed /\ p \in listed /\ ~Pending(p)
    BY <1>1, <1>2 DEF PackagesInv, InOrder, Rests, Ready
  <1>3. CASE \E c \in Pk!Threads : Shows(c) /\ ops[c].pkg = p
    BY <1>1, <1>3 DEF PackagesInv, InOrder, Progress, Shows, Told
  <1> QED  BY <1>2, <1>3 DEF Promised

\* The steps of a reload from place to place, and out of nginx into save.
LEMMA ReloadGoesOn ==
  ASSUME PackagesInv, NEW c \in Pk!Threads, ops[c].at \in {"list", "info", "nginx"},
         NEW r \in Op, ops' = [ops EXCEPT ![c] = r],
         r.pkg = ops[c].pkg, r.alone = ops[c].alone, r.do = ops[c].do, r.todo = ops[c].todo,
         r.at \in {"info", "nginx"} \/ (r.at = "save" /\ c # Starter /\ live' = conf),
         UNCHANGED <<listed, phase, reg, conf, mixed, calls>>, live' = live \/ live' = conf,
         loaded' \subseteq Pkgs, alias' \in BOOLEAN, seen' \subseteq Pkgs
  PROVE  /\ Kept(c) /\ ops'[c] = r /\ \A d \in Pk!Threads \ {c} : Same(d)
         /\ \A p \in Pkgs : Promised(p)' => Promised(p)
  <1> USE FactsHold DEF Facts
  <1>1. Active(c)
    BY DEF Active
  <1>2. /\ conf = reg["pages"] /\ ops[c].pkg \in Pkgs
        /\ (ops[c].alone => Progress(c)) /\ (c \in Callers => CallerFits(c))
        /\ (c = Starter => ops[c].do \in {"boot", "boot_rest"}) /\ (c # Starter => c \in Callers)
    BY <1>1, UnderWay
  <1>3. OpsTyped' /\ ops'[c] = r /\ Loses(c, {})
    BY OneGoes
  <1>4. Pk!TypeOK'
    BY <1>3 DEF Pk!TypeOK, OpsTyped, Op
  <1>5. ops[c].do # "delete"
    BY <1>2 DEF CallerFits
  <1>6. c \in Callers => CallerFits(c)'
    BY <1>1, <1>2, <1>3, <1>5 DEF CallerFits
  <1>7. ops[c].alone => Progress(c)'
    BY <1>2, <1>3, <1>5 DEF Progress
  <1>8. \A q \in Pkgs \ {ops[c].pkg} : Keeps(q)
    BY <1>2, AllKeep
  <1>9. r.at \notin {"idle", "next", "hook", "list"} /\ ops[c].at \in Told
    BY DEF Told
  <1>10. Kept(c)
    BY <1>1, <1>2, <1>3, <1>4, <1>6, <1>7, <1>8, <1>9, GoesOn
  <1>11. \A d \in Pk!Threads \ {c} : Same(d)
    BY <1>3 DEF Loses
  <1> QED  BY <1>3, <1>9, <1>10, <1>11 DEF Kept

\* ListActors keeps the invariant.
LEMMA ListActorsKeeps ==
  ASSUME PackagesInv, NEW c \in Pk!Threads, Pk!ListActors(c), UNCHANGED calls
  PROVE  PackagesInv'
  <1> USE FactsHold DEF Facts
  <1> DEFINE r == [ops[c] EXCEPT !.at = "info", !.names = reg["actors"]]
  <1>1. /\ ops[c].at = "list" /\ ops[c] \in Op
        /\ UNCHANGED <<listed, phase, reg, conf, live, mixed, calls, loaded, alias, seen>>
    BY DEF Pk!ListActors, Pk!At, Pk!client, OpsTyped
  <1>2. ops' = [ops EXCEPT ![c] = r]
    BY <1>1 DEF Pk!ListActors, OpsTyped, Op
  <1>3. reg["actors"] \in SUBSET Pkgs
    BY DEF Pk!TypeOK, Pk!Registries
  <1>4. /\ r \in Op /\ r.at = "info" /\ r.names = reg["actors"] /\ r.pkg = ops[c].pkg
        /\ r.alone = ops[c].alone /\ r.do = ops[c].do /\ r.todo = ops[c].todo
    BY <1>1, <1>3 DEF Op, Pk!Places
  <1> HIDE DEF r
  <1>5. loaded' \subseteq Pkgs /\ alias' \in BOOLEAN /\ seen' \subseteq Pkgs
    BY <1>1 DEF Pk!TypeOK
  <1>6. /\ Kept(c) /\ ops'[c] = r /\ \A p \in Pkgs : Promised(p)' => Promised(p)
    BY <1>1, <1>2, <1>4, <1>5, ReloadGoesOn
  <1>7. ASSUME NEW p \in Pkgs, Promised(p)' PROVE Covered(p)'
    <2>1. p \in reg["actors"]
      BY <1>6, <1>7, PromisedIsThere
    <2> QED  BY <1>4, <1>6, <2>1 DEF Covered, Covers, Pk!Reloading, Pk!Reloads
  <1> QED  BY <1>6, <1>7 DEF PackagesInv, Kept

\* ActorInfo keeps the invariant.
LEMMA ActorInfoKeeps ==
  ASSUME PackagesInv, NEW c \in Pk!Threads, Pk!ActorInfo(c), UNCHANGED calls
  PROVE  PackagesInv'
  <1> USE FactsHold DEF Facts
  <1>0. PICK q \in ops[c].names \cap reg["actors"] :
          loaded' = loaded \cup {q} /\ ops' = [ops EXCEPT ![c].names = @ \ {q}]
    BY DEF Pk!ActorInfo
  <1> DEFINE r == [ops[c] EXCEPT !.names = @ \ {q}]
  <1>1. /\ ops[c].at = "info" /\ ops[c] \in Op /\ ops' = [ops EXCEPT ![c] = r]
        /\ UNCHANGED <<listed, phase, reg, conf, live, mixed, calls, alias, seen>>
    BY <1>0 DEF Pk!ActorInfo, Pk!At, OpsTyped
  <1>2. /\ r \in Op /\ r.at = "info" /\ r.names = ops[c].names \ {q} /\ r.pkg = ops[c].pkg
        /\ r.alone = ops[c].alone /\ r.do = ops[c].do /\ r.todo = ops[c].todo
    BY <1>1 DEF Op
  <1> HIDE DEF r
  <1>3. loaded' \subseteq Pkgs /\ alias' \in BOOLEAN /\ seen' \subseteq Pkgs
    BY <1>0, <1>1 DEF Pk!TypeOK, Op
  <1>4. /\ Kept(c) /\ ops'[c] = r /\ \A p \in Pkgs : Promised(p)' => Promised(p)
        /\ \A d \in Pk!Threads \ {c} : Same(d)
    BY <1>1, <1>2, <1>3, ReloadGoesOn
  <1>5. ASSUME NEW p \in Pkgs, Promised(p)' PROVE Covered(p)'
    <2>1. Covered(p) /\ Pk!Reloading
      BY <1>1, <1>4, <1>5 DEF PackagesInv, Pk!Reloading, Pk!Reloads
    <2>2. PICK d \in Pk!Threads : Covers(d, p)
      BY <2>1 DEF Covered
    <2>3. Covers(d, p)'
      <3>1. CASE d = c
        BY <1>0, <1>1, <1>2, <1>4, <2>2, <3>1 DEF Covers
      <3>2. CASE d # c
        BY <1>0, <1>4, <2>2, <3>2 DEF Covers, Same
      <3> QED  BY <3>1, <3>2
    <2>4. Pk!Reloading'
      BY <1>2, <1>4 DEF Pk!Reloading, Pk!Reloads
    <2> QED  BY <2>3, <2>4 DEF Covered
  <1> QED  BY <1>4, <1>5 DEF PackagesInv, Kept

\* ActorInfoFails keeps the invariant.
LEMMA ActorInfoFailsKeeps ==
  ASSUME PackagesInv, NEW c \in Pk!Threads, Pk!ActorInfoFails(c), UNCHANGED calls
  PROVE  PackagesInv'
  <1> USE FactsHold DEF Facts
  <1> DEFINE others == {d \in Pk!Threads \ {c} : Pk!Reloads(d)}
             lost == Pk!LeftOut(c)
  <1>1. /\ ops[c].at = "info" /\ Pk!Raises(c, lost) /\ Active(c)
        /\ UNCHANGED <<listed, phase, reg, conf, live, loaded, alias, seen, calls>>
    BY DEF Pk!ActorInfoFails, Pk!At, Pk!client, Active
  <1>2. lost = {p \in reg["actors"] \ (IF others = {} THEN Pk!Shown ELSE loaded) :
                  \A d \in others : ~Pk!Comes(p, d)}
    BY DEF Pk!LeftOut
  <1>3. reg \in [Pk!Registries -> SUBSET Pkgs] /\ conf' = reg'["pages"]
    BY <1>1, UnderWay
  <1>4. lost \in SUBSET Pkgs
    BY <1>2, <1>3 DEF Pk!Registries
  <1> HIDE DEF lost
  <1>5. \A q \in Pkgs \ ({ops[c].pkg} \cup lost) : Keeps(q)
    BY <1>1, AllKeep
  <1>6. Kept(c) /\ \A d \in Pk!Threads \ {c} : Same(d)
    BY <1>1, <1>3, <1>4, <1>5, RaisesKeeps
  <1>7. /\ ops'[c] = Pk!Idle /\ Loses(c, lost) /\ mixed' = mixed \cup {ops[c].pkg} \cup lost
    BY <1>1, RaisesOps
  <1>8. ~Pk!Reloads(c)' /\ ~Active(c)' /\ ops'[c].at # "list"
    BY <1>7 DEF Pk!Reloads, Pk!Idle, Active
  <1>9. \A d \in Pk!Threads \ {c} : Pk!Reloads(d)' = Pk!Reloads(d)
    BY <1>6 DEF Pk!Reloads, Same
  <1>10. ASSUME NEW p \in Pkgs, Promised(p)' PROVE Covered(p)'
    <2>1. Promised(p) /\ p \in reg["actors"]
      BY <1>6, <1>8, <1>10, PromisedIsThere DEF Kept
    <2>2. p \notin lost
      <3>1. CASE p \notin mixed'
        BY <1>7, <3>1
      <3>2. CASE \E d \in Pk!Threads : Shows(d)' /\ ops'[d].pkg = p
        <4>1. PICK d \in Pk!Threads : Shows(d)' /\ ops'[d].pkg = p
          BY <3>2
        <4>2. d # c /\ Same(d)
          BY <1>6, <1>8, <4>1 DEF Shows
        <4>3. Active(d) /\ ops'[d].alone /\ ops[d].pkg = p
          BY <4>1, <4>2 DEF Shows, Active, Same
        <4> QED  BY <1>7, <4>2, <4>3 DEF Loses
      <3> QED  BY <1>10, <3>1, <3>2 DEF Promised
    <2>3. CASE others = {}
      <3>1. p \in Pk!Shown
        BY <1>2, <2>1, <2>2, <2>3
      <3>2. ~Pk!Reloading'
        BY <1>8, <1>9, <2>3 DEF Pk!Reloading
      <3> QED  BY <1>1, <3>1, <3>2 DEF Covered, Pk!Shown
    <2>4. CASE others # {}
      <3>1. \E d \in others : p \in loaded \/ Pk!Comes(p, d)
        BY <1>2, <2>1, <2>2, <2>4
      <3>2. PICK d \in others : p \in loaded \/ Pk!Comes(p, d)
        BY <3>1
      <3>3. Covers(d, p)
        BY <3>2 DEF Covers, Pk!Comes, Pk!Reloads, Pk!At
      <3>4. Covers(d, p)' /\ Pk!Reloads(d)'
        BY <1>1, <1>6, <1>9, <3>2, <3>3 DEF Covers, Same
      <3> QED  BY <3>2, <3>4 DEF Covered, Pk!Reloading
    <2> QED  BY <2>3, <2>4
  <1> QED  BY <1>6, <1>10 DEF PackagesInv, Kept

\* ActorsLoaded keeps the invariant.
LEMMA ActorsLoadedKeeps ==
  ASSUME PackagesInv, NEW c \in Pk!Threads, Pk!ActorsLoaded(c), UNCHANGED calls
  PROVE  PackagesInv'
  <1> USE FactsHold DEF Facts
  <1> DEFINE r == [ops[c] EXCEPT !.at = "nginx"]
  <1>1. /\ ops[c].at = "info" /\ ops[c].names = {} /\ ops[c] \in Op /\ ops' = [ops EXCEPT ![c] = r]
        /\ UNCHANGED <<listed, phase, reg, conf, live, mixed, calls, loaded>>
        /\ alias' = TRUE /\ seen' = {}
    BY DEF Pk!ActorsLoaded, Pk!At, Pk!Goto, OpsTyped
  <1>2. /\ r \in Op /\ r.at = "nginx" /\ r.pkg = ops[c].pkg
        /\ r.alone = ops[c].alone /\ r.do = ops[c].do /\ r.todo = ops[c].todo
    BY <1>1 DEF Op, Pk!Places
  <1> HIDE DEF r
  <1>3. loaded' \subseteq Pkgs /\ alias' \in BOOLEAN /\ seen' \subseteq Pkgs
    BY <1>1 DEF Pk!TypeOK
  <1>4. /\ Kept(c) /\ ops'[c] = r /\ \A p \in Pkgs : Promised(p)' => Promised(p)
        /\ \A d \in Pk!Threads \ {c} : Same(d)
    BY <1>1, <1>2, <1>3, ReloadGoesOn
  <1>5. ASSUME NEW p \in Pkgs, Promised(p)' PROVE Covered(p)'
    <2>1. Covered(p) /\ Pk!Reloading
      BY <1>1, <1>4, <1>5 DEF PackagesInv, Pk!Reloading, Pk!Reloads
    <2>2. PICK d \in Pk!Threads : Covers(d, p)
      BY <2>1 DEF Covered
    <2>3. CASE d # c
      <3>1. Covers(d, p)' /\ Pk!Reloads(d)'
        BY <1>1, <1>4, <2>2, <2>3 DEF Covers, Same, Pk!Reloads
      <3> QED  BY <3>1 DEF Covered, Pk!Reloading
    <2>4. CASE d = c
      <3>1. p \in loaded
        BY <1>1, <2>2, <2>4 DEF Covers
      <3>2. p \in Pk!Shown' /\ p \in loaded'
        BY <1>1, <3>1 DEF Pk!Shown
      <3>3. \A e \in Pk!Threads : Pk!Reloads(e)' => Covers(e, p)'
        BY <3>2 DEF Pk!Reloads, Covers
      <3> QED  BY <3>2, <3>3 DEF Covered, Pk!Reloading
    <2> QED  BY <2>3, <2>4
  <1> QED  BY <1>4, <1>5 DEF PackagesInv, Kept

\* The caller's install goes on to save; the starting server's ends here.
LEMMA ReloadNginxKeeps ==
  ASSUME PackagesInv, NEW c \in Pk!Threads, Pk!ReloadNginx(c), UNCHANGED calls
  PROVE  PackagesInv'
  <1> USE FactsHold DEF Facts
  <1>0. PICK p \in Pkgs : p = ops[c].pkg
    BY DEF OpsTyped, Op
  <1>1. /\ ops[c].at = "nginx" /\ ops[c] \in Op /\ live' = conf /\ Active(c)
        /\ UNCHANGED <<listed, phase, reg, conf, loaded, alias, seen, calls>>
    BY DEF Pk!ReloadNginx, Pk!At, OpsTyped, Pk!client, Active
  <1>2. CASE c # Starter
    <2> DEFINE r == [ops[c] EXCEPT !.at = "save"]
    <2>1. ops' = [ops EXCEPT ![c] = r] /\ UNCHANGED mixed
      BY <1>2 DEF Pk!ReloadNginx, Pk!Goto
    <2>2. /\ r \in Op /\ r.at = "save" /\ r.pkg = ops[c].pkg
          /\ r.alone = ops[c].alone /\ r.do = ops[c].do /\ r.todo = ops[c].todo
      BY <1>1 DEF Op, Pk!Places
    <2> HIDE DEF r
    <2>3. loaded' \subseteq Pkgs /\ alias' \in BOOLEAN /\ seen' \subseteq Pkgs
      BY <1>1 DEF Pk!TypeOK
    <2>4. Kept(c) /\ ops'[c] = r /\ \A d \in Pk!Threads \ {c} : Same(d)
      BY <1>1, <1>2, <2>1, <2>2, <2>3, ReloadGoesOn
    <2> QED  BY <1>1, <2>2, <2>4, StepTells DEF Pk!Reloads, Pk!client
  <1>3. CASE c = Starter
    <2> DEFINE r == [ops[c] EXCEPT !.at = "next"]
               X == {p}
    <2>1. ops' = [ops EXCEPT ![c] = r] /\ mixed' = IF ops[c].alone THEN mixed \ {p} ELSE mixed
      BY <1>0, <1>3 DEF Pk!ReloadNginx, Pk!Goto, Pk!Cured
    <2>2. /\ r \in Op /\ r.at = "next" /\ r.pkg = p
          /\ r.do = ops[c].do /\ r.todo = ops[c].todo
      BY <1>0, <1>1 DEF Op, Pk!Places
    <2> HIDE DEF r
    <2>3. OpsTyped' /\ ops'[c] = r /\ Loses(c, {})
      BY <2>1, <2>2, OneGoes
    <2>4. Pk!TypeOK'
      BY <1>1, <2>1, <2>3 DEF Pk!TypeOK, OpsTyped, Op
    <2>5. /\ conf = reg["pages"] /\ (ops[c].alone => Progress(c))
          /\ (~ops[c].alone => p \in mixed) /\ c \notin Callers
          /\ ops[c].do \in {"boot", "boot_rest"}
      BY <1>0, <1>1, <1>3, UnderWay
    <2>6. Settles(p)
      <3> SUFFICES ASSUME p \notin mixed'
                   PROVE  Rests(p)' /\ (p \in listed' /\ ~Pending(p)' => Promised(p))
        BY DEF Settles
      <3>1. ops[c].alone /\ Progress(c)
        BY <2>1, <2>5
      <3>2. Shows(c)
        BY <1>1, <3>1 DEF Shows, Told
      <3>3. Ready(p)'
        BY <1>0, <1>1, <2>5, <3>1 DEF Progress, Ready
      <3>4. p \in listed'
        BY <1>0, <1>1, <2>5, <3>1 DEF Progress
      <3> QED  BY <1>0, <3>2, <3>3, <3>4 DEF Rests, Promised
    <2>7. Ends(c) /\ StarterStays(c)
      BY <1>0, <2>1, <2>2, <2>3, <2>5, <2>6 DEF Ends, StarterStays, Active
    <2>8. \A q \in Pkgs \ X : Keeps(q) /\ (q \in mixed => q \in mixed')
      BY <1>1, <2>1, <2>5, AllKeep
    <2>9. X \in SUBSET Pkgs /\ X = {ops[c].pkg} \cup {} /\ {} \in SUBSET Pkgs /\ {} \subseteq mixed'
          /\ conf' = reg'["pages"]
      BY <1>0, <1>1, <2>5
    <2> HIDE DEF X
    <2>10. Kept(c)
      BY <1>1, <2>3, <2>4, <2>5, <2>7, <2>8, <2>9, WorkKeeps
    <2> QED  BY <1>1, <2>2, <2>3, <2>10, StepTells DEF Pk!Reloads, Loses, Pk!client
  <1> QED  BY <1>2, <1>3

\* What ends an operation and takes it off its thread.
LEMMA LastStep ==
  ASSUME PackagesInv, NEW c \in Callers, NEW p \in Pkgs, p = ops[c].pkg,
         ops[c].at \in {"save", "uninstall"}, ops' = [ops EXCEPT ![c] = Pk!Idle],
         mixed' = Pk!Cured(c), UNCHANGED <<phase, reg, conf, live, loaded, alias, seen, calls>>,
         listed' \subseteq Pkgs, Chatflows \in listed',
         \A q \in Pkgs \ {p} : q \in listed' <=> q \in listed,
         ops[c].alone => Rests(p)' /\ (p \in listed' => Shows(c))
  PROVE  PackagesInv'
  <1> USE FactsHold DEF Facts
  <1> DEFINE X == {p}
  <1>1. c \in Pk!Threads /\ Active(c) /\ mixed' = IF ops[c].alone THEN mixed \ {p} ELSE mixed
    BY DEF Pk!Threads, Active, Pk!Cured
  <1>2. OpsTyped' /\ ops'[c] = Pk!Idle /\ Loses(c, {}) /\ Pk!Idle.at = "idle"
    BY <1>1, OneGoes DEF Pk!Idle
  <1>3. Pk!TypeOK'
    BY <1>1, <1>2 DEF Pk!TypeOK, OpsTyped, Op
  <1>4. conf = reg["pages"] /\ c # Starter /\ (~ops[c].alone => p \in mixed)
    BY <1>1, UnderWay
  <1>5. CallerFits(c)' /\ ~Active(c)'
    BY <1>2 DEF CallerFits, Active, Pk!Idle
  <1>6. Settles(p)
    BY <1>1, <1>4 DEF Settles, Promised
  <1>7. Ends(c) /\ StarterStays(c)
    BY <1>1, <1>4, <1>5, <1>6 DEF Ends, StarterStays
  <1>8. \A q \in Pkgs \ X : Keeps(q) /\ (q \in mixed => q \in mixed')
    BY <1>1 DEF Keeps
  <1>9. X \in SUBSET Pkgs /\ X = {ops[c].pkg} \cup {} /\ {} \in SUBSET Pkgs /\ {} \subseteq mixed'
        /\ conf' = reg'["pages"]
    BY <1>4
  <1> HIDE DEF X
  <1>10. Kept(c)
    BY <1>1, <1>2, <1>3, <1>5, <1>7, <1>8, <1>9, WorkKeeps
  <1> QED  BY <1>1, <1>2, <1>10, StepTells DEF Pk!Reloads, Loses, Pk!client

\* Save keeps the invariant.
LEMMA SaveKeeps ==
  ASSUME PackagesInv, NEW c \in Callers, Pk!Save(c), UNCHANGED calls
  PROVE  PackagesInv'
  <1> USE FactsHold DEF Facts
  <1>1. /\ ops[c].at = "save" /\ ops' = [ops EXCEPT ![c] = Pk!Idle] /\ mixed' = Pk!Cured(c)
        /\ UNCHANGED <<phase, reg, conf, live, loaded, alias, seen, calls>>
        /\ c \in Pk!Threads /\ Active(c)
    BY DEF Pk!Save, Pk!At, Pk!client, Pk!Threads, Active
  <1>2. PICK p \in Pkgs : p = ops[c].pkg
    BY <1>1 DEF OpsTyped, Op
  <1>3. listed' = IF ops[c].do = "add" THEN listed \cup {p} ELSE listed
    BY <1>2 DEF Pk!Save
  <1>4. /\ listed' \subseteq Pkgs /\ Chatflows \in listed'
        /\ \A q \in Pkgs \ {p} : q \in listed' <=> q \in listed
    BY <1>3 DEF Pk!TypeOK
  <1>5. ASSUME ops[c].alone PROVE Rests(p)' /\ Shows(c)
    <2>1. Progress(c)
      BY <1>1, <1>5, UnderWay
    <2>2. Ready(p)' /\ p \in listed'
      BY <1>1, <1>2, <1>3, <2>1 DEF Ready, Progress
    <2> QED  BY <1>1, <1>5, <2>2 DEF Rests, Shows, Told
  <1> QED  BY <1>1, <1>2, <1>4, <1>5, LastStep

\* Uninstalled keeps the invariant.
LEMMA UninstalledKeeps ==
  ASSUME PackagesInv, NEW c \in Callers, Pk!Uninstalled(c), UNCHANGED calls
  PROVE  PackagesInv'
  <1> USE FactsHold DEF Facts
  <1>1. /\ ops[c].at = "uninstall" /\ ops' = [ops EXCEPT ![c] = Pk!Idle] /\ mixed' = Pk!Cured(c)
        /\ UNCHANGED <<phase, reg, conf, live, loaded, alias, seen, calls>>
        /\ c \in Pk!Threads /\ Active(c)
    BY DEF Pk!Uninstalled, Pk!At, Pk!client, Pk!Threads, Active
  <1>2. PICK p \in Pkgs : p = ops[c].pkg
    BY <1>1 DEF OpsTyped, Op
  <1>3. listed' = listed \ {p} /\ p # Chatflows
    BY <1>1, <1>2, UnderWay DEF Pk!Uninstalled, CallerFits
  <1>4. /\ listed' \subseteq Pkgs /\ Chatflows \in listed'
        /\ \A q \in Pkgs \ {p} : q \in listed' <=> q \in listed
    BY <1>3 DEF Pk!TypeOK
  <1>5. ASSUME ops[c].alone PROVE Rests(p)' /\ p \notin listed'
    <2>1. Progress(c)
      BY <1>1, <1>5, UnderWay
    <2>2. Gone(p)'
      BY <1>1, <1>2, <2>1 DEF Gone, Progress
    <2> QED  BY <1>3, <2>2 DEF Rests
  <1> QED  BY <1>1, <1>2, <1>4, <1>5, LastStep

\* StopServices keeps the invariant.
LEMMA StopServicesKeeps ==
  ASSUME PackagesInv, NEW c \in Callers, Pk!StopServices(c), UNCHANGED calls
  PROVE  PackagesInv'
  <1> USE FactsHold DEF Facts
  <1> DEFINE at == IF ops[c].do = "reload" THEN "register" ELSE "unregister"
             r == [ops[c] EXCEPT !.at = at]
  <1>1. /\ ops[c].at = "stop" /\ ops' = [ops EXCEPT ![c] = r] /\ c \in Pk!Threads /\ Active(c)
        /\ reg' = [reg EXCEPT !["services"] = @ \ {ops[c].pkg}]
        /\ UNCHANGED <<listed, phase, conf, live, loaded, alias, seen, mixed, calls>>
    BY DEF Pk!StopServices, Pk!At, Pk!Goto, Pk!client, Pk!Threads, Active
  <1>2. /\ conf = reg["pages"] /\ (ops[c].alone => Progress(c)) /\ CallerFits(c) /\ c # Starter
        /\ ops[c] \in Op /\ ops[c].pkg \in Pkgs /\ reg \in [Pk!Registries -> SUBSET Pkgs]
    BY <1>1, UnderWay
  <1>3. /\ at \in {"register", "unregister"} /\ ops[c].do \in {"delete", "reload"}
        /\ (at = "register" <=> ops[c].do = "reload")
    BY <1>1, <1>2 DEF CallerFits
  <1> HIDE DEF at
  <1>4. /\ r \in Op /\ r.at = at /\ r.pkg = ops[c].pkg
        /\ r.alone = ops[c].alone /\ r.do = ops[c].do /\ r.todo = ops[c].todo
    BY <1>2, <1>3 DEF Op, Pk!Places
  <1> HIDE DEF r
  <1>5. OpsTyped' /\ ops'[c] = r /\ Loses(c, {})
    BY <1>1, <1>4, OneGoes
  <1>6. /\ reg' \in [Pk!Registries -> SUBSET Pkgs] /\ reg'["services"] = reg["services"] \ {ops[c].pkg}
        /\ \A x \in Pk!Registries \ {"services"} : reg'[x] = reg[x]
    BY <1>1, <1>2 DEF Pk!Registries
  <1>7. reg'["pages"] = reg["pages"] /\ reg'["bottle"] = reg["bottle"]
        /\ \A x \in Pk!Registered \ {"services"} : reg'[x] = reg[x]
    BY <1>6 DEF Pk!Registries, Pk!Registered
  <1>8. Pk!TypeOK'
    BY <1>1, <1>5, <1>6 DEF Pk!TypeOK, OpsTyped, Op
  <1>9. CallerFits(c)'
    BY <1>1, <1>2, <1>3, <1>4, <1>5 DEF CallerFits, Active
  <1>10. ops[c].alone => Progress(c)'
    BY <1>1, <1>2, <1>3, <1>4, <1>5, <1>6, <1>7 DEF Progress
  <1>11. \A q \in Pkgs \ {ops[c].pkg} : Keeps(q)
    BY <1>1, <1>6, <1>7 DEF Keeps
  <1>12. r.at \notin {"idle", "next", "hook"} \cup Told
    BY <1>3, <1>4 DEF Told
  <1>13. conf' = reg'["pages"]
    BY <1>1, <1>2, <1>7
  <1>14. Kept(c)
    BY <1>1, <1>2, <1>4, <1>8, <1>9, <1>10, <1>11, <1>12, <1>13, GoesOn
  <1> QED  BY <1>1, <1>3, <1>4, <1>5, <1>14, StepTells DEF Pk!Reloads, Loses, Pk!client

\* Unregister keeps the invariant.
LEMMA UnregisterKeeps ==
  ASSUME PackagesInv, NEW c \in Callers, Pk!Unregister(c), UNCHANGED calls
  PROVE  PackagesInv'
  <1> USE FactsHold DEF Facts
  <1>1. /\ ops[c].at = "unregister" /\ c \in Pk!Threads /\ Active(c)
        /\ UNCHANGED <<listed, phase, conf, loaded, alias, seen, calls>>
    BY DEF Pk!Unregister, Pk!At, Pk!client, Pk!Threads, Active
  <1>2. PICK p \in Pkgs : p = ops[c].pkg
    BY <1>1 DEF OpsTyped, Op
  <1>3. /\ conf = reg["pages"] /\ (ops[c].alone => Progress(c)) /\ CallerFits(c) /\ c # Starter
        /\ ops[c] \in Op /\ reg \in [Pk!Registries -> SUBSET Pkgs] /\ "uninstall" \in Pk!Places
    BY <1>1, UnderWay DEF Pk!Places
  <1>4. ops[c].do = "delete" /\ (ops[c].alone => phase = "up") /\ p # Chatflows
    BY <1>1, <1>2, <1>3 DEF CallerFits
  <1>5. CASE phase = "up"
    <2> DEFINE lost == (reg["actors"] \cap Pk!Clashing(p)) \ {p}
               X == {p} \cup lost
    <2>1. /\ reg' = [reg EXCEPT !["actors"] = @ \ Pk!Clashing(p), !["chats"] = @ \ {p}]
          /\ live' = conf /\ Pk!Disturb(c, "uninstall", lost)
      BY <1>2, <1>5 DEF Pk!Unregister
    <2>2. /\ reg' \in [Pk!Registries -> SUBSET Pkgs]
          /\ reg'["actors"] = reg["actors"] \ Pk!Clashing(p) /\ reg'["chats"] = reg["chats"] \ {p}
          /\ reg'["pages"] = reg["pages"] /\ reg'["bottle"] = reg["bottle"]
          /\ reg'["services"] = reg["services"]
      BY <1>3, <2>1 DEF Pk!Registries
    <2>3. lost \in SUBSET Pkgs /\ p \notin lost /\ p \in Pk!Clashing(p)
      BY <1>3 DEF Pk!Registries, Pk!Clashing
    <2>4. \A q \in Pkgs \ X : q \in reg'["actors"] <=> q \in reg["actors"]
      BY <2>2, <2>3
    <2> HIDE DEF lost
    <2>5. /\ OpsTyped' /\ ops'[c] = [ops[c] EXCEPT !.at = "uninstall"] /\ Loses(c, lost)
          /\ mixed' = mixed \cup lost
      BY <1>1, <1>3, <2>1, DisturbOps
    <2>6. /\ ops'[c].at = "uninstall" /\ ops'[c].pkg = p /\ ops'[c].alone = ops[c].alone
          /\ ops'[c].do = "delete"
      BY <1>2, <1>3, <1>4, <2>5 DEF Op
    <2>7. Pk!TypeOK'
      <3>1. live' \subseteq Pkgs /\ conf' \subseteq Pkgs /\ mixed' \subseteq Pkgs
        BY <1>1, <2>1, <2>3, <2>5 DEF Pk!TypeOK
      <3> QED  BY <1>1, <2>2, <2>5, <3>1 DEF Pk!TypeOK, OpsTyped, Op
    <2>8. ops[c].alone => Progress(c)'
      <3> SUFFICES ASSUME ops[c].alone PROVE Progress(c)'
        OBVIOUS
      <3>1. p \notin reg["bottle"] /\ p \notin reg["services"] /\ p \in listed
        BY <1>1, <1>2, <1>3, <1>4 DEF Progress
      <3>2. p \notin reg'["bottle"] /\ p \notin reg'["services"] /\ p \in listed'
            /\ p \notin reg'["actors"] /\ p \notin reg'["chats"]
        BY <1>1, <2>2, <2>3, <3>1
      <3> QED  BY <2>6, <3>2 DEF Progress, Gone, Pk!Registered
    <2>9. Continues(c) /\ StarterStays(c) /\ CallerFits(c)'
      BY <1>1, <1>2, <1>3, <1>4, <2>5, <2>6, <2>8
         DEF Continues, StarterStays, Told, CallerFits, Active
    <2>10. \A q \in Pkgs \ X : Keeps(q) /\ (q \in mixed => q \in mixed')
      BY <1>1, <1>3, <2>1, <2>2, <2>4, <2>5 DEF Keeps, Pk!Registered
    <2>11. X \in SUBSET Pkgs /\ X = {ops[c].pkg} \cup lost /\ lost \subseteq mixed'
           /\ conf' = reg'["pages"]
      BY <1>1, <1>2, <1>3, <2>2, <2>3, <2>5
    <2> HIDE DEF X
    <2>12. Kept(c)
      BY <1>1, <2>3, <2>5, <2>7, <2>9, <2>10, <2>11, WorkKeeps
    <2> QED  BY <1>1, <2>5, <2>6, <2>12, StepTells DEF Pk!Reloads, Loses, Pk!client
  <1>6. CASE phase # "up"
    <2> DEFINE r == [ops[c] EXCEPT !.at = "uninstall"]
    <2>1. ops' = [ops EXCEPT ![c] = r] /\ UNCHANGED <<reg, live, mixed>>
      BY <1>6 DEF Pk!Unregister, Pk!Goto
    <2>2. /\ r \in Op /\ r.at = "uninstall" /\ r.pkg = ops[c].pkg
          /\ r.alone = ops[c].alone /\ r.do = ops[c].do /\ r.todo = ops[c].todo
      BY <1>3 DEF Op, Pk!Places
    <2> HIDE DEF r
    <2>3. OpsTyped' /\ ops'[c] = r /\ Loses(c, {})
      BY <1>1, <2>1, <2>2, OneGoes
    <2>4. Pk!TypeOK'
      BY <1>1, <2>1, <2>3 DEF Pk!TypeOK, OpsTyped, Op
    <2>5. ~ops[c].alone /\ CallerFits(c)' /\ r.at \notin {"idle", "next", "hook"}
      BY <1>1, <1>2, <1>4, <1>6, <2>2, <2>3 DEF CallerFits, Active
    <2>6. \A q \in Pkgs : Keeps(q)
      BY <1>1, <2>1, AllKeep
    <2>7. UNCHANGED <<phase, mixed>> /\ conf' = reg'["pages"]
      BY <1>1, <1>3, <2>1
    <2>8. Kept(c)
      BY <1>1, <1>3, <2>1, <2>2, <2>4, <2>5, <2>6, <2>7, GoesOn
    <2> QED  BY <1>1, <2>2, <2>3, <2>8, StepTells DEF Pk!Reloads, Loses, Pk!client
  <1> QED  BY <1>5, <1>6

-----------------------------------------------------------------------------
(* The starting server, and the end of the process.                        *)

\* What holds while the starting server chooses the next package.
LEMMA AtNext ==
  ASSUME PackagesInv, ops[Starter].at = "next"
  PROVE  /\ Starter \in Pk!Threads /\ Starter \notin Callers /\ ops[Starter] \in Op
         /\ phase = "starting" /\ conf = reg["pages"] /\ ops[Starter].do \in {"boot", "boot_rest"}
         /\ ~Active(Starter) /\ ~Pk!Reloads(Starter) /\ Starter \in {Starter}
  BY FactsHold, ServerAssumption
     DEF Facts, PackagesInv, InOrder, StarterFits, Server0, OpsTyped, Active, Pk!Reloads,
         Pk!Threads, ServerAssumption, Pk!NamesAssumption

\* The starting server's steps from one package to the next.
LEMMA NextStep ==
  ASSUME PackagesInv, ops[Starter].at = "next", NEW r \in Op, r.at \in {"next", "idle"},
         ops' = [ops EXCEPT ![Starter] = r], NEW X \in SUBSET Pkgs,
         UNCHANGED <<listed, reg, conf, loaded, alias, seen, calls>>,
         live' = live \/ live' = conf,
         \/ phase' = phase /\ r.at = "next" /\ r.do \in {"boot", "boot_rest"}
         \/ phase' = "up" /\ r.at = "idle",
         mixed \subseteq mixed', mixed' \subseteq Pkgs,
         \A q \in Pkgs \ X : q \in listed /\ Pending(q) => Pending(q)',
         \A q \in X : q \in mixed' \/ q \notin listed
  PROVE  PackagesInv'
  <1> USE FactsHold DEF Facts
  <1> DEFINE c == Starter
  <1>1. /\ c \in Pk!Threads /\ c \notin Callers /\ phase = "starting" /\ conf = reg["pages"]
        /\ ~Active(c) /\ ~Pk!Reloads(c)
    BY AtNext
  <1>2. OpsTyped' /\ ops'[c] = r /\ Loses(c, {})
    BY <1>1, OneGoes
  <1>3. Pk!TypeOK'
    BY <1>1, <1>2 DEF Pk!TypeOK, OpsTyped, Op
  <1>4. Server0' /\ StarterFits'
    BY <1>1, <1>2 DEF Server0, StarterFits
  <1>5. ~Active(c)' /\ ~Pk!Reloads(c)'
    BY <1>2 DEF Active, Pk!Reloads
  <1>6. \A q \in Pkgs : Keeps(q)
    BY <1>1, AllKeep
  <1>7. \A q \in Pkgs : Quiet(q)' => Quiet(q)
    BY <1>2 DEF Quiet, Loses, Same
  <1>8. OthersStay(c, X)
    <2> SUFFICES ASSUME NEW d \in Pk!Threads \ {c}
                 PROVE  Same(d) /\ (Active(d) => ops[d].pkg \in mixed' /\ ~ops'[d].alone)
      BY DEF OthersStay
    <2>1. Same(d) /\ d \in Callers
      BY <1>2 DEF Loses, Pk!Threads
    <2>2. Active(d) => ~ops[d].alone
      BY <1>1, <2>1 DEF PackagesInv, InOrder, CallerFits
    <2> QED  BY <2>1, <2>2 DEF PackagesInv, InOrder, Apart, Same
  <1>9. \A q \in Pkgs \ X : Untouched(q)
    BY <1>6, <1>7 DEF Untouched
  <1>10. ASSUME NEW q \in X PROVE Settles(q)
    <2> SUFFICES ASSUME q \notin mixed', Quiet(q)' PROVE Rests(q)' /\ q \notin listed'
      BY DEF Settles
    <2>1. q \notin listed /\ q \notin mixed /\ Quiet(q) /\ q \in Pkgs
      BY <1>7
    <2>2. Gone(q)
      BY <2>1 DEF PackagesInv, InOrder, Rests
    <2> QED  BY <2>1, <2>2 DEF Rests, Gone
  <1>11. StepOf(c, X)
    BY <1>5, <1>8, <1>9, <1>10 DEF StepOf, Goes
  <1>12. Kept(c)
    BY <1>1, <1>3, <1>4, <1>11, StepKeeps
  <1> QED  BY <1>1, <1>2, <1>5, <1>12, StepTells DEF Loses, Pk!client

\* StartInstalls keeps the invariant.
LEMMA StartInstallsKeeps ==
  ASSUME PackagesInv, Pk!StartInstalls, UNCHANGED calls
  PROVE  PackagesInv'
  <1> USE FactsHold DEF Facts
  <1> DEFINE c == Starter
  <1>1. /\ ops[c].at = "next"
        /\ UNCHANGED <<listed, phase, reg, conf, live, loaded, alias, seen, calls>>
    BY DEF Pk!StartInstalls, Pk!At, Pk!client
  <1>2. /\ c \in Pk!Threads /\ c \notin Callers /\ ops[c] \in Op /\ phase = "starting"
        /\ conf = reg["pages"] /\ ops[c].do \in {"boot", "boot_rest"}
        /\ ~Active(c) /\ ~Pk!Reloads(c)
    BY <1>1, AtNext
  <1>3. PICK p \in ops[c].todo :
          LET rest == [ops[c] EXCEPT !.todo = @ \ {p}, !.pkg = p]
          IN  IF p \in listed THEN Pk!Entered(c, [rest EXCEPT !.at = "register"])
              ELSE ops' = [ops EXCEPT ![c] = rest] /\ UNCHANGED mixed
    BY DEF Pk!StartInstalls
  <1>4. p \in Pkgs
    BY <1>2 DEF Op
  <1> DEFINE rest == [ops[c] EXCEPT !.todo = @ \ {p}, !.pkg = p]
  <1>5. /\ rest \in Op /\ rest.todo = ops[c].todo \ {p} /\ rest.pkg = p /\ rest.at = "next"
        /\ rest.do = ops[c].do
    BY <1>1, <1>2, <1>4 DEF Op
  <1>6. CASE p \in listed
    <2> DEFINE entry == [rest EXCEPT !.at = "register"]
    <2>1. Pk!Entered(c, entry)
      BY <1>3, <1>6
    <2>2. /\ entry \in Op /\ entry.todo = ops[c].todo \ {p} /\ entry.pkg = p
          /\ entry.at = "register" /\ entry.do = ops[c].do
      BY <1>5 DEF Op, Pk!Places
    <2> HIDE DEF entry, rest
    <2>3. /\ OpsTyped' /\ Loses(c, {p})
          /\ ops'[c] = [entry EXCEPT !.alone = ops'[c].alone]
          /\ ops'[c].alone => ~Meets(c, p)
          /\ Meets(c, p) \/ ~ops'[c].alone => p \in mixed'
          /\ mixed \subseteq mixed' /\ mixed' \subseteq mixed \cup {p}
      BY <1>2, <2>1, <2>2, EnteredOps
    <2>4. /\ ops'[c].todo = ops[c].todo \ {p} /\ ops'[c].pkg = p /\ ops'[c].at = "register"
          /\ ops'[c].do = ops[c].do
      BY <2>2, <2>3 DEF Op
    <2>5. Pk!TypeOK'
      BY <1>1, <1>4, <2>3 DEF Pk!TypeOK, OpsTyped, Op
    <2>6. \A q \in Pkgs : Keeps(q)
      BY <1>1 DEF Keeps
    <2>7. Progress(c)'
      BY <1>1, <1>2, <1>6, <2>4 DEF Progress
    <2>8. phase # "down" /\ UNCHANGED phase /\ conf' = reg'["pages"]
      BY <1>1, <1>2
    <2>9. Kept(c)
      <3>1. {p} \in SUBSET Pkgs /\ p \in {p} /\ {p} \ {p} \subseteq mixed'
        BY <1>4
      <3> QED  BY <1>1, <1>2, <1>4, <2>3, <2>4, <2>5, <2>6, <2>7, <2>8, <3>1, EnterKeeps
    <2> QED  BY <1>1, <1>2, <2>3, <2>4, <2>9, StepTells DEF Pk!Reloads, Loses, Pk!client
  <1>7. CASE p \notin listed
    <2>1. ops' = [ops EXCEPT ![c] = rest] /\ UNCHANGED mixed
      BY <1>3, <1>7
    <2>2. \A q \in Pkgs \ {p} : q \in listed /\ Pending(q) => Pending(q)'
      BY <1>1, <1>2, <1>5, <2>1 DEF Pending, OpsTyped
    <2>3. {p} \in SUBSET Pkgs /\ \A q \in {p} : q \in mixed' \/ q \notin listed
      BY <1>4, <1>7
    <2>4. mixed \subseteq mixed' /\ mixed' \subseteq Pkgs
      BY <2>1 DEF Pk!TypeOK
    <2> HIDE DEF rest
    <2> QED  BY <1>1, <1>2, <1>5, <2>1, <2>2, <2>3, <2>4, NextStep
  <1> QED  BY <1>6, <1>7

\* StartSkips keeps the invariant.
LEMMA StartSkipsKeeps ==
  ASSUME PackagesInv, Pk!StartSkips, UNCHANGED calls
  PROVE  PackagesInv'
  <1> USE FactsHold DEF Facts
  <1> DEFINE c == Starter
  <1>1. /\ ops[c].at = "next"
        /\ UNCHANGED <<listed, phase, reg, conf, live, loaded, alias, seen, calls>>
    BY DEF Pk!StartSkips, Pk!At, Pk!client
  <1>2. /\ c \in Pk!Threads /\ ops[c] \in Op /\ phase = "starting"
        /\ ops[c].do \in {"boot", "boot_rest"}
    BY <1>1, AtNext
  <1>3. PICK p \in ops[c].todo :
          ops' = [ops EXCEPT ![c].todo = @ \ {p}] /\ mixed' = mixed \cup {p}
    BY DEF Pk!StartSkips
  <1> DEFINE r == [ops[c] EXCEPT !.todo = @ \ {p}]
  <1>4. /\ p \in Pkgs /\ r \in Op /\ r.at = "next" /\ r.do = ops[c].do
        /\ r.todo = ops[c].todo \ {p}
    BY <1>1, <1>2 DEF Op
  <1>5. ops' = [ops EXCEPT ![c] = r]
    BY <1>2, <1>3 DEF OpsTyped
  <1>6. \A q \in Pkgs \ {p} : q \in listed /\ Pending(q) => Pending(q)'
    BY <1>1, <1>2, <1>4, <1>5 DEF Pending, OpsTyped
  <1>7. {p} \in SUBSET Pkgs /\ \A q \in {p} : q \in mixed' \/ q \notin listed
    BY <1>3, <1>4
  <1>8. mixed \subseteq mixed' /\ mixed' \subseteq Pkgs
    BY <1>3, <1>4 DEF Pk!TypeOK
  <1> HIDE DEF r
  <1> QED  BY <1>1, <1>2, <1>4, <1>5, <1>6, <1>7, <1>8, NextStep

\* InstallAll keeps the invariant.
LEMMA InstallAllKeeps ==
  ASSUME PackagesInv, Pk!InstallAll, UNCHANGED calls
  PROVE  PackagesInv'
  <1> USE FactsHold DEF Facts
  <1> DEFINE c == Starter
             r == [ops[c] EXCEPT !.do = "boot_rest", !.todo = listed \ {Chatflows}]
  <1>1. /\ ops[c].at = "next" /\ ops[c].do = "boot" /\ ops[c].todo = {}
        /\ UNCHANGED <<listed, phase, reg, conf, live, loaded, alias, seen, calls, mixed>>
    BY DEF Pk!InstallAll, Pk!At, Pk!client
  <1>2. c \in Pk!Threads /\ ops[c] \in Op /\ phase = "starting"
    BY <1>1, AtNext
  <1>3. ops' = [ops EXCEPT ![c] = r]
    BY <1>2 DEF Pk!InstallAll, OpsTyped, Op
  <1>4. /\ r \in Op /\ r.at = "next" /\ r.do = "boot_rest" /\ r.todo = listed \ {Chatflows}
    BY <1>1, <1>2 DEF Op, Pk!Works, Pk!TypeOK
  <1> HIDE DEF r
  <1>5. \A q \in Pkgs \ {} : q \in listed /\ Pending(q) => Pending(q)'
    <2>1. ops'[c] = r
      BY <1>2, <1>3 DEF OpsTyped
    <2> QED  BY <1>1, <1>2, <1>4, <2>1 DEF Pending
  <1>6. {} \in SUBSET Pkgs /\ \A q \in {} : q \in mixed' \/ q \notin listed
    OBVIOUS
  <1>7. mixed \subseteq mixed' /\ mixed' \subseteq Pkgs
    BY <1>1 DEF Pk!TypeOK
  <1> QED  BY <1>1, <1>3, <1>4, <1>5, <1>6, <1>7, NextStep

\* Started keeps the invariant.
LEMMA StartedKeeps ==
  ASSUME PackagesInv, Pk!Started, UNCHANGED calls
  PROVE  PackagesInv'
  <1> USE FactsHold DEF Facts
  <1> DEFINE c == Starter
  <1>1. /\ ops[c].at = "next" /\ ops[c].do = "boot_rest" /\ ops[c].todo = {}
        /\ phase' = "up" /\ live' = conf /\ ops' = [ops EXCEPT ![c] = Pk!Idle]
        /\ UNCHANGED <<listed, reg, conf, loaded, alias, seen, calls, mixed>>
    BY DEF Pk!Started, Pk!At, Pk!client
  <1>2. phase = "starting" /\ Pk!Idle \in Op /\ Pk!Idle.at = "idle"
    BY <1>1, AtNext DEF Pk!Idle
  <1>3. \A q \in Pkgs \ {} : q \in listed /\ Pending(q) => Pending(q)'
    BY <1>1, <1>2 DEF Pending
  <1>4. {} \in SUBSET Pkgs /\ \A q \in {} : q \in mixed' \/ q \notin listed
    OBVIOUS
  <1>5. mixed \subseteq mixed' /\ mixed' \subseteq Pkgs
    BY <1>1 DEF Pk!TypeOK
  <1> QED  BY <1>1, <1>2, <1>3, <1>4, <1>5, NextStep

\* A state where no operation has begun and every package is still to be installed.
Unbegun ==
    /\ Pk!TypeOK /\ Server0 /\ StarterFits
    /\ \A c \in Pk!Threads : ~Active(c)
    /\ \A c \in Callers : ops[c] = Pk!Idle
    /\ reg = Pk!Nothing
    /\ \A p \in Pkgs : Pending(p)

\* Before anything has begun the invariant holds.
LEMMA NothingBegun == Unbegun => PackagesInv
  <1> SUFFICES ASSUME Unbegun PROVE PackagesInv
    OBVIOUS
  <1>1. \A p \in Pkgs : Gone(p)
    BY DEF Unbegun, Gone, Pk!Nothing, Pk!Registered, Pk!Registries
  <1>2. ASSUME NEW c \in Callers PROVE CallerFits(c)
    <2>1. ops[c].at = "idle" /\ ops[c].do = "none" /\ ~Active(c)
      BY DEF Unbegun, Pk!Idle, Pk!Threads
    <2> QED  BY <2>1 DEF CallerFits
  <1>3. \A p \in Pkgs : ~Promised(p)
    BY DEF Unbegun, Promised, Shows
  <1>4. Apart /\ \A p \in Pkgs : Rests(p)
    BY <1>1 DEF Unbegun, Apart, Rests
  <1> QED  BY <1>2, <1>3, <1>4 DEF Unbegun, PackagesInv, InOrder

\* Start keeps the invariant.
LEMMA StartKeeps ==
  ASSUME PackagesInv, Pk!Start, UNCHANGED calls
  PROVE  PackagesInv'
  <1> USE FactsHold DEF Facts
  <1> DEFINE r == [Pk!Idle EXCEPT !.do = "boot", !.at = "next", !.todo = {Chatflows}]
  <1>1. /\ phase = "down" /\ phase' = "starting" /\ conf' = {}
        /\ ops' = [ops EXCEPT ![Starter] = r]
        /\ UNCHANGED <<listed, reg, live, loaded, alias, seen, calls, mixed>>
    BY DEF Pk!Start, Pk!CleanNginx, Pk!client
  <1>2. reg = Pk!Nothing /\ \A c \in Pk!Threads : ops[c] = Pk!Idle
    BY <1>1 DEF PackagesInv, InOrder, Server0
  <1>3. r \in Op /\ r.at = "next" /\ r.do = "boot" /\ r.todo = {Chatflows}
    BY ServerAssumption
       DEF Op, Pk!Idle, Pk!Works, Pk!Places, ServerAssumption, Pk!NamesAssumption
  <1> HIDE DEF r
  <1>4. /\ Starter \in Pk!Threads /\ Starter \notin Callers /\ Callers \subseteq Pk!Threads
        /\ OpsTyped' /\ ops'[Starter] = r
        /\ \A c \in Pk!Threads \ {Starter} : ops'[c] = Pk!Idle
    BY <1>1, <1>2, <1>3, ServerAssumption
       DEF Pk!Threads, OpsTyped, ServerAssumption, Pk!NamesAssumption
  <1>5. Pk!TypeOK'
    BY <1>1, <1>4 DEF Pk!TypeOK, OpsTyped, Op
  <1>6. Server0' /\ StarterFits'
    BY <1>1, <1>2, <1>3, <1>4 DEF Server0, StarterFits, Pk!Nothing, Pk!Registries
  <1>7. \A c \in Pk!Threads : ~Active(c)'
    BY <1>3, <1>4 DEF Active, Pk!Idle
  <1>8. \A c \in Callers : ops'[c] = Pk!Idle
    BY <1>4
  <1>9. \A p \in Pkgs : Pending(p)'
    BY <1>1, <1>3, <1>4 DEF Pending
  <1>10. reg' = Pk!Nothing
    BY <1>1, <1>2
  <1>11. Unbegun'
    BY <1>5, <1>6, <1>7, <1>8, <1>9, <1>10 DEF Unbegun
  <1> QED  BY <1>11, NothingBegun, PTL

\* Down keeps the invariant.
LEMMA DownKeeps ==
  ASSUME PackagesInv, Pk!Down, live' \subseteq Pkgs, UNCHANGED calls
  PROVE  PackagesInv'
  <1> USE FactsHold DEF Facts
  <1>1. /\ phase' = "down" /\ reg' = Pk!Nothing /\ loaded' = {} /\ alias' = TRUE /\ seen' = {}
        /\ ops' = [c \in Pk!Threads |-> Pk!Idle] /\ mixed' = {} /\ UNCHANGED <<listed, conf, calls>>
    BY DEF Pk!Down
  <1>2. Starter \in Pk!Threads /\ Callers \subseteq Pk!Threads
    BY DEF Pk!Threads
  <1>3. Pk!TypeOK'
    BY <1>1 DEF Pk!TypeOK, Op, Pk!Nothing
  <1>4. Server0' /\ StarterFits'
    BY <1>1, <1>2 DEF Server0, StarterFits, Pk!Idle
  <1>5. \A c \in Pk!Threads : ~Active(c)'
    BY <1>1 DEF Active, Pk!Idle
  <1>6. \A p \in Pkgs : Pending(p)'
    BY <1>1 DEF Pending
  <1>7. \A c \in Callers : ops'[c] = Pk!Idle
    BY <1>1, <1>2
  <1>8. Unbegun'
    BY <1>1, <1>3, <1>4, <1>5, <1>6, <1>7 DEF Unbegun
  <1> QED  BY <1>8, NothingBegun, PTL

-----------------------------------------------------------------------------
(* The packages of the server.                                             *)

\* The server begins with nothing begun.
LEMMA PackagesInit == Pk!Init => PackagesInv
  <1> SUFFICES ASSUME Pk!Init PROVE PackagesInv
    OBVIOUS
  <1>1. /\ listed = {Chatflows} /\ phase = "down" /\ reg = Pk!Nothing /\ conf = {} /\ live = {}
        /\ loaded = {} /\ alias = TRUE /\ seen = {} /\ ops = [c \in Pk!Threads |-> Pk!Idle]
        /\ mixed = {} /\ calls = 0
    BY DEF Pk!Init
  <1>2. /\ Starter \in Pk!Threads /\ Callers \subseteq Pk!Threads /\ Pk!Idle \in Op
        /\ Chatflows \in Pkgs /\ MaxCalls \in Nat
    BY ServerAssumption
       DEF Pk!Threads, Op, Pk!Idle, ServerAssumption, Pk!NamesAssumption, Pk!Works, Pk!Places
  <1>3. Pk!TypeOK
    BY <1>1, <1>2 DEF Pk!TypeOK, Op, Pk!Nothing
  <1>4. Server0 /\ StarterFits
    BY <1>1, <1>2 DEF Server0, StarterFits, Pk!Idle
  <1>5. \A c \in Pk!Threads : ~Active(c)
    BY <1>1 DEF Active, Pk!Idle
  <1>6. (\A p \in Pkgs : Pending(p)) /\ \A c \in Callers : ops[c] = Pk!Idle
    BY <1>1, <1>2 DEF Pending
  <1>7. Unbegun
    BY <1>1, <1>3, <1>4, <1>5, <1>6 DEF Unbegun
  <1> QED  BY <1>7, NothingBegun

\* Every step of the package manager keeps its invariant.
LEMMA PackagesNext == PackagesInv /\ [Pk!Next]_packagesVars => PackagesInv'
  <1> SUFFICES ASSUME PackagesInv, [Pk!Next]_packagesVars PROVE PackagesInv'
    OBVIOUS
  <1>1. CASE \E c \in Callers, p \in Pkgs : Pk!Add(c, p) \/ Pk!Delete(c, p) \/ Pk!Reload(c, p)
    BY <1>1, AddKeeps, DeleteKeeps, ReloadKeeps
  <1>2. ASSUME NEW c \in Pk!Threads, Pk!Install(c), UNCHANGED calls PROVE PackagesInv'
    BY <1>2, InstallRegistersKeeps, InstallRegistersPartKeeps, InstallServesKeeps,
       InstallServesNotKeeps, ListActorsKeeps, ActorInfoKeeps, ActorInfoFailsKeeps,
       ActorsLoadedKeeps, ReloadNginxKeeps
       DEF Pk!Install
  <1>3. ASSUME NEW c \in Callers, Pk!Step(c), UNCHANGED calls PROVE PackagesInv'
    BY <1>3, InstallHookKeeps, InstallHookFailsKeeps, SaveKeeps, StopServicesKeeps,
       StopServicesNotKeeps, UnregisterKeeps, UninstalledKeeps
       DEF Pk!Step
  <1>4. ASSUME Pk!Boot, UNCHANGED calls PROVE PackagesInv'
    BY <1>4, StartKeeps, StartInstallsKeeps, StartSkipsKeeps, InstallAllKeeps, StartedKeeps
       DEF Pk!Boot
  <1>5. ASSUME Pk!StartFails \/ Pk!Stop \/ Pk!StopCommand \/ Pk!Kill, UNCHANGED calls
        PROVE  PackagesInv'
    <2>1. live \subseteq Pkgs
      BY DEF PackagesInv, InOrder, Pk!TypeOK
    <2>2. live' \subseteq Pkgs /\ Pk!Down
      BY <1>5, <2>1 DEF Pk!StartFails, Pk!Stop, Pk!StopCommand, Pk!Kill
    <2> QED  BY <1>5, <2>2, DownKeeps
  <1>6. CASE UNCHANGED packagesVars
    <2>1. Pk!TypeOK' = Pk!TypeOK /\ Server0' = Server0 /\ StarterFits' = StarterFits
          /\ Apart' = Apart /\ Pk!Reloading' = Pk!Reloading /\ Pk!Shown' = Pk!Shown
      BY <1>6 DEF packagesVars, Pk!TypeOK, Server0, StarterFits, Apart, Active,
                  Pk!Reloading, Pk!Reloads, Pk!Shown
    <2>2. \A c \in Pk!Threads : /\ Progress(c)' = Progress(c) /\ Active(c)' = Active(c)
                                /\ \A p \in Pkgs : Covers(c, p)' = Covers(c, p)
      BY <1>6 DEF packagesVars, Progress, Gone, Active, Covers
    <2>3. \A c \in Callers : CallerFits(c)' = CallerFits(c)
      BY <1>6 DEF packagesVars, CallerFits, Active
    <2>4. \A p \in Pkgs : Rests(p)' = Rests(p) /\ Quiet(p)' = Quiet(p) /\ Pending(p)' = Pending(p)
      BY <1>6 DEF packagesVars, Rests, Ready, Gone, Pending, Quiet
    <2>5. \A p \in Pkgs : Promised(p)' = Promised(p) /\ Covered(p)' = Covered(p)
      BY <1>6, <2>1, <2>2, <2>4 DEF packagesVars, Promised, Covered, Shows
    <2>6. InOrder'
      BY <1>6, <2>1, <2>2, <2>3, <2>4 DEF packagesVars, PackagesInv, InOrder
    <2> QED  BY <2>5, <2>6 DEF PackagesInv
  <1> QED  BY <1>1, <1>2, <1>3, <1>4, <1>5, <1>6 DEF Pk!Next

\* The behaviours of Server are behaviours of Packages.
LEMMA PackagesSteps == Spec => Pk!Spec
  <1>1. Init => Pk!Init
    BY DEF Init
  <1>2. [Next]_vars => [Pk!Next]_(Pk!vars)
    BY DEF Next, vars, PackagesRuns, BackupRuns, CrontabRuns, NoticesRuns, MailsRuns,
       IdentityRuns, WalletsRuns, LoginRuns, CertificatesRuns, PollsRuns, packagesVars, Pk!vars
  <1> QED  BY <1>1, <1>2, PTL DEF Spec, Pk!Spec

\* A package at rest is as its list entry says, and the gateway answers for it if it must.
LEMMA RestsAgree ==
  PackagesInv => Pk!ListedIsThere /\ Pk!ListedAnswers /\ Pk!UnlistedIsGone
  <1> SUFFICES ASSUME PackagesInv PROVE Pk!ListedIsThere /\ Pk!ListedAnswers /\ Pk!UnlistedIsGone
    OBVIOUS
  <1>1. ASSUME NEW p \in Pkgs, Pk!Settled(p)
        PROVE  phase = "up" /\ p \notin mixed /\ Quiet(p) /\ ~Pending(p) /\ Rests(p)
    <2>1. phase = "up" /\ p \notin mixed /\ ~Pending(p)
      BY <1>1 DEF Pk!Settled, Pending
    <2>2. Quiet(p)
      BY <1>1 DEF Pk!Settled, Pk!On, Quiet
    <2> QED  BY <2>1, <2>2 DEF PackagesInv, InOrder
  <1>2. listed \subseteq Pkgs
    BY DEF PackagesInv, InOrder, Pk!TypeOK
  <1>3. ASSUME NEW p \in listed, Pk!Settled(p), ~Pk!Reloading PROVE Pk!Answer(p) = "result"
    <2>1. Promised(p)
      BY <1>1, <1>2, <1>3 DEF Promised
    <2>2. p \in Pk!Shown
      BY <1>2, <1>3, <2>1 DEF PackagesInv, Covered
    <2>3. p \in reg["actors"]
      BY <1>2, <2>1, PromisedIsThere
    <2> QED  BY <2>2, <2>3 DEF Pk!Answer, Pk!GedisAnswer
  <1>4. Pk!ListedIsThere
    BY <1>1, <1>2 DEF Pk!ListedIsThere, Rests, Ready
  <1>5. ASSUME NEW p \in Pkgs \ listed, Pk!Settled(p)
        PROVE  (\A r \in Pk!Registered : p \notin reg[r]) /\ Pk!Answer(p) # "result"
    <2>1. Gone(p)
      BY <1>1, <1>5 DEF Rests
    <2>2. p \notin reg["actors"]
      BY <2>1 DEF Gone, Pk!Registered
    <2> QED  BY <2>1, <2>2 DEF Gone, Pk!Answer, Pk!GedisAnswer
  <1> QED  BY <1>3, <1>4, <1>5 DEF Pk!ListedAnswers, Pk!UnlistedIsGone

\* A package that nothing went wrong for is in all six registries or in none of them, as
\* the list says, and the http gateway answers for it: whatever was added, deleted and
\* reloaded beside it, and after any restart (PackageManager and ThreebotServer).
THEOREM RegistriesAgree == Spec => []PackagesAgree
  <1>1. PackagesInv => PackagesAgree
    BY RestsAgree DEF PackagesAgree
  <1>2. PackagesInv /\ [Pk!Next]_(Pk!vars) => PackagesInv'
    BY PackagesNext DEF packagesVars, Pk!vars
  <1> QED  BY <1>1, <1>2, PackagesInit, PackagesSteps, PTL DEF Pk!Spec

-----------------------------------------------------------------------------
(* Notices.                                                                *)

Line == queue \o old
Entries(s) == {s[i] : i \in DOMAIN s}
Once(s) == \A i, j \in DOMAIN s : s[i] = s[j] => i = j
Settled == shown \cup dropped

\* What was drawn is in a push's hands, in the queue, or settled; the old ones are
\* settled; no notice is twice in the two lists, or in them and in a push's hands.
NoticesInv ==
    /\ drawn \in 0 .. MaxNotices
    /\ queue \in Seq(Nat) /\ old \in Seq(Nat)
    /\ fetcher \in [Callers -> [at : {"idle", "all", "move", "clear"}, n : Nat]]
    /\ 1 .. drawn = held \cup Entries(queue) \cup Settled
    /\ Entries(old) \subseteq Settled
    /\ Once(Line)
    /\ Entries(Line) \cap held = {}

\* Lists that are part of the two keep their notices apart.
LEMMA PartOfLine ==
  ASSUME NEW s \in Seq(Nat), NEW t \in Seq(Nat), NEW k \in Nat, Len(t) + k <= Len(s),
         \A i \in 1 .. Len(t) : t[i] = s[i + k]
  PROVE  (Once(s) => Once(t)) /\ Entries(t) \subseteq Entries(s)
  <1>1. DOMAIN s = 1 .. Len(s) /\ DOMAIN t = 1 .. Len(t) /\ Len(s) \in Nat /\ Len(t) \in Nat
    OBVIOUS
  <1>2. \A i \in DOMAIN t : i + k \in DOMAIN s /\ t[i] = s[i + k] /\ i \in Nat
    BY <1>1, SMTT(30)
  <1>3. \A i, j \in Nat : i + k = j + k => i = j
    OBVIOUS
  <1>4. ASSUME Once(s), NEW i \in DOMAIN t, NEW j \in DOMAIN t, t[i] = t[j]
        PROVE  i = j
    <2>1. i + k \in DOMAIN s /\ j + k \in DOMAIN s /\ s[i + k] = s[j + k]
      BY <1>2, <1>4
    <2>2. i + k = j + k
      BY <1>4, <2>1 DEF Once
    <2> QED  BY <1>2, <1>3, <2>2
  <1>5. ASSUME NEW i \in DOMAIN t PROVE t[i] \in Entries(s)
    BY <1>2 DEF Entries
  <1> QED  BY <1>4, <1>5 DEF Once, Entries

\* What begins as a list has no entry that is not in it.
LEMMA BeginOfLine ==
  ASSUME NEW s \in Seq(Nat), NEW t \in Seq(Nat), Len(t) <= Len(s),
         \A i \in 1 .. Len(t) : t[i] = s[i]
  PROVE  Entries(t) \subseteq Entries(s)
  <1>1. DOMAIN t = 1 .. Len(t) /\ DOMAIN s = 1 .. Len(s) /\ Len(s) \in Nat /\ Len(t) \in Nat
    OBVIOUS
  <1>2. \A i \in DOMAIN t : i \in DOMAIN s /\ t[i] = s[i]
    BY <1>1
  <1> QED  BY <1>2 DEF Entries

\* What two lists hold, one after the other.
LEMMA LineHolds ==
  ASSUME NEW s \in Seq(Nat), NEW t \in Seq(Nat)
  PROVE  /\ s \o t \in Seq(Nat) /\ Len(s \o t) = Len(s) + Len(t)
         /\ Entries(s \o t) = Entries(s) \cup Entries(t)
         /\ \A i \in 1 .. Len(s) : (s \o t)[i] = s[i]
         /\ \A i \in 1 .. Len(t) : (s \o t)[Len(s) + i] = t[i]
  <1>1. /\ s \o t \in Seq(Nat) /\ Len(s \o t) = Len(s) + Len(t)
        /\ DOMAIN (s \o t) = 1 .. (Len(s) + Len(t)) /\ DOMAIN s = 1 .. Len(s)
        /\ DOMAIN t = 1 .. Len(t) /\ Len(s) \in Nat /\ Len(t) \in Nat
    BY ConcatProperties
  <1>2. /\ \A i \in 1 .. Len(s) : (s \o t)[i] = s[i] /\ i \in DOMAIN (s \o t)
        /\ \A i \in 1 .. Len(t) : (s \o t)[Len(s) + i] = t[i] /\ Len(s) + i \in DOMAIN (s \o t)
    BY <1>1, ConcatProperties
  <1>3. \A i \in DOMAIN (s \o t) : (s \o t)[i] \in Entries(s) \/ (s \o t)[i] \in Entries(t)
    <2> SUFFICES ASSUME NEW i \in 1 .. (Len(s) + Len(t))
                 PROVE  (s \o t)[i] \in Entries(s) \/ (s \o t)[i] \in Entries(t)
      BY <1>1
    <2>1. CASE i <= Len(s)
      <3>1. i \in DOMAIN s /\ (s \o t)[i] = s[i]
        BY <1>1, <1>2, <2>1
      <3> QED  BY <3>1 DEF Entries
    <2>2. CASE i > Len(s)
      <3>1. i - Len(s) \in 1 .. Len(t) /\ i = Len(s) + (i - Len(s))
        BY <1>1, <2>2
      <3>2. i - Len(s) \in DOMAIN t /\ (s \o t)[i] = t[i - Len(s)]
        BY <1>1, <1>2, <3>1
      <3> QED  BY <3>2 DEF Entries
    <2> QED  BY <1>1, <2>1, <2>2
  <1>4. Entries(s) \subseteq Entries(s \o t)
    <2> SUFFICES ASSUME NEW i \in 1 .. Len(s) PROVE s[i] \in Entries(s \o t)
      BY <1>1 DEF Entries
    <2>1. i \in DOMAIN (s \o t) /\ s[i] = (s \o t)[i]
      BY <1>2
    <2> QED  BY <2>1 DEF Entries
  <1>5. Entries(t) \subseteq Entries(s \o t)
    <2> SUFFICES ASSUME NEW i \in 1 .. Len(t) PROVE t[i] \in Entries(s \o t)
      BY <1>1 DEF Entries
    <2>1. Len(s) + i \in DOMAIN (s \o t) /\ t[i] = (s \o t)[Len(s) + i]
      BY <1>2
    <2> QED  BY <2>1 DEF Entries
  <1>6. Entries(s \o t) \subseteq Entries(s) \cup Entries(t)
    BY <1>3 DEF Entries
  <1> QED  BY <1>1, <1>2, <1>4, <1>5, <1>6

\* The first n of a list, or all if there are fewer.
LEMMA TopOf ==
  ASSUME NEW s \in Seq(Nat), NEW n \in Nat
  PROVE  /\ Nt!Top(s, n) \in Seq(Nat)
         /\ Len(Nt!Top(s, n)) <= Len(s)
         /\ (n <= Len(s) => Len(Nt!Top(s, n)) = n) /\ (n > Len(s) => Len(Nt!Top(s, n)) = Len(s))
         /\ \A i \in 1 .. Len(Nt!Top(s, n)) : Nt!Top(s, n)[i] = s[i]
  <1> DEFINE m == IF n < Len(s) THEN n ELSE Len(s)
  <1>1. m \in 0 .. Len(s) /\ Len(s) \in Nat /\ (n <= Len(s) => m = n) /\ (n > Len(s) => m = Len(s))
    OBVIOUS
  <1>2. Nt!Top(s, n) = SubSeq(s, 1, m)
    BY DEF Nt!Top
  <1> HIDE DEF m
  <1> QED  BY <1>1, <1>2, SubSeqProperties

\* The last n of the queue, or all if there are fewer.
LEMMA MovedOf ==
  ASSUME queue \in Seq(Nat), NEW n \in Nat
  PROVE  /\ Nt!Moved(n) \in Seq(Nat) /\ Len(Nt!Moved(n)) <= Len(queue)
         /\ Len(Nt!Moved(n)) <= n
         /\ \A i \in 1 .. Len(Nt!Moved(n)) :
              Nt!Moved(n)[i] = queue[(Len(queue) - Len(Nt!Moved(n))) + i]
  <1> DEFINE len == Len(queue)
             k == IF n < len THEN n ELSE len
             a == len - k + 1
  <1>1. k \in 0 .. len /\ len \in Nat /\ a \in 1 .. (len + 1) /\ a = len - k + 1 /\ k <= n
    <2>1. len \in Nat
      OBVIOUS
    <2>2. k \in 0 .. len /\ k <= n
      BY <2>1
    <2> HIDE DEF k, len
    <2>3. len - k + 1 \in 1 .. (len + 1)
      BY <2>1, <2>2
    <2> QED  BY <2>1, <2>2, <2>3
  <1>2. Nt!Moved(n) = SubSeq(queue, a, len)
    BY DEF Nt!Moved
  <1> HIDE DEF k, a, len
  <1>3. Nt!Moved(n) \in Seq(Nat) /\ Len(Nt!Moved(n)) = len - a + 1
        /\ \A i \in 1 .. (len - a + 1) : Nt!Moved(n)[i] = queue[a + i - 1]
    <2>1. \A i \in a .. len : queue[i] \in Nat
      BY <1>1 DEF len
    <2>2. len - a + 1 = k /\ a \in Int /\ len \in Int
      BY <1>1
    <2>3. Len(Nt!Moved(n)) = IF a <= len THEN len - a + 1 ELSE 0
      BY <1>2, <2>1, <2>2, SubSeqProperties
    <2> QED  BY <1>1, <1>2, <2>1, <2>2, <2>3, SubSeqProperties
  <1>4. len - a + 1 = k /\ \A i \in 1 .. k : a + i - 1 = (len - k) + i
    BY <1>1
  <1> QED  BY <1>1, <1>3, <1>4 DEF len

\* The invariant of the queue of notices holds at first.
LEMMA NoticesInit == Nt!Init => NoticesInv
  <1> SUFFICES ASSUME Nt!Init PROVE NoticesInv
    OBVIOUS
  <1>1. MaxNotices \in Nat
    BY ServerAssumption DEF ServerAssumption, Nt!NoticesAssumption
  <1>2. queue = <<>> /\ old = <<>> /\ drawn = 0 /\ held = {} /\ shown = {} /\ dropped = {}
    BY DEF Nt!Init
  <1>3. Line = <<>> /\ DOMAIN Line = {} /\ Entries(queue) = {} /\ Entries(old) = {}
    BY <1>2 DEF Line, Entries
  <1>4. Entries(Line) = {} /\ Once(Line)
    BY <1>3 DEF Entries, Once
  <1>5. fetcher \in [Callers -> [at : {"idle", "all", "move", "clear"}, n : Nat]]
    BY DEF Nt!Init, Nt!Idle
  <1> QED  BY <1>1, <1>2, <1>3, <1>4, <1>5 DEF NoticesInv, Settled

\* Moving, cutting and clearing: what stays in the lists was in them, in one piece.
LEMMA NoticesStay ==
  ASSUME NoticesInv, queue' \in Seq(Nat), old' \in Seq(Nat), UNCHANGED <<drawn, held>>,
         fetcher' \in [Callers -> [at : {"idle", "all", "move", "clear"}, n : Nat]],
         NEW k \in Nat, Len(queue') + Len(old') + k <= Len(Line),
         \A i \in 1 .. (Len(queue') + Len(old')) : Line'[i] = Line[i + k],
         Entries(queue)' \subseteq Entries(queue),
         Entries(queue) \subseteq Entries(queue)' \cup Settled',
         Entries(old)' \subseteq Settled',
         Settled' \subseteq Settled \cup Entries(queue), Settled \subseteq Settled'
  PROVE  NoticesInv'
  <1>1. Line \in Seq(Nat) /\ Line' \in Seq(Nat) /\ Len(Line') = Len(queue') + Len(old')
    BY LineHolds DEF Line, NoticesInv
  <1>2. Once(Line)' /\ Entries(Line)' \subseteq Entries(Line)
    BY <1>1, PartOfLine DEF NoticesInv, Once, Entries
  <1> QED  BY <1>2 DEF NoticesInv

\* Every step of the queue of notices keeps its invariant.
LEMMA NoticesNext ==
  ASSUME NoticesInv, [Nt!Next]_(Nt!vars)
  PROVE  NoticesInv'
  <1> DEFINE Caller == [at : {"idle", "all", "move", "clear"}, n : Nat]
  <1>0. /\ MaxNotices \in Nat /\ Page \in Nat /\ SeenMax \in Nat /\ Page <= SeenMax
        /\ drawn \in Nat /\ queue \in Seq(Nat) /\ old \in Seq(Nat)
        /\ fetcher \in [Callers -> Caller]
    BY ServerAssumption DEF ServerAssumption, Nt!NoticesAssumption, NoticesInv
  <1>1. ASSUME Nt!Draw, UNCHANGED <<queue, old, fetcher, shown, dropped>> PROVE NoticesInv'
    <2>1. drawn' = drawn + 1 /\ drawn' \in 0 .. MaxNotices /\ held' = held \cup {drawn + 1}
      BY <1>0, <1>1 DEF Nt!Draw
    <2>2. Entries(Line) = Entries(queue) \cup Entries(old)
      BY <1>0, LineHolds DEF Line
    <2>3. Entries(Line) \subseteq 1 .. drawn
      BY <2>2 DEF NoticesInv
    <2>4. 1 .. drawn' = (1 .. drawn) \cup {drawn + 1} /\ drawn + 1 \notin 1 .. drawn
      BY <1>0, <2>1
    <2>5. UNCHANGED <<Line, Settled>>
      BY <1>1 DEF Line, Settled
    <2>6. UNCHANGED <<Entries(queue), Entries(old), Entries(Line), Once(Line)>>
      BY <1>1, <2>5 DEF Entries, Once
    <2>7. queue' \in Seq(Nat) /\ old' \in Seq(Nat) /\ fetcher' \in [Callers -> Caller]
      BY <1>0, <1>1
    <2> QED  BY <2>1, <2>3, <2>4, <2>5, <2>6, <2>7 DEF NoticesInv
  <1>2. CASE UNCHANGED <<queue, old, drawn, held, shown, dropped>>
             /\ fetcher' \in [Callers -> Caller]
    BY <1>2, ZenonT(40) DEF NoticesInv, Line, Entries, Once, Settled
  <1>3. ASSUME NEW i \in Nt!Ids, Nt!PushPut(i) PROVE NoticesInv'
    <2>1. i \in held /\ held' = held \ {i} /\ queue' = <<i>> \o queue
          /\ UNCHANGED <<old, drawn, fetcher, shown, dropped>>
      BY <1>3 DEF Nt!PushPut
    <2>2. <<i>> \in Seq(Nat) /\ Len(<<i>>) = 1 /\ <<i>>[1] = i /\ Entries(<<i>>) = {i}
      <3>1. i \in Nat
        BY <1>0 DEF Nt!Ids
      <3> QED  BY <3>1 DEF Entries
    <2>3. Line \in Seq(Nat) /\ Line' = <<i>> \o Line /\ Len(Line) \in Nat
      BY <1>0, <2>1, <2>2, ConcatAssociative, ConcatProperties DEF Line
    <2>4. /\ Entries(queue') = {i} \cup Entries(queue) /\ Entries(Line') = {i} \cup Entries(Line)
          /\ Len(Line') = 1 + Len(Line) /\ queue' \in Seq(Nat) /\ Line' \in Seq(Nat)
          /\ Line'[1] = i /\ \A j \in 1 .. Len(Line) : Line'[1 + j] = Line[j]
      <3>1. /\ Entries(<<i>> \o queue) = {i} \cup Entries(queue) /\ <<i>> \o queue \in Seq(Nat)
        BY <1>0, <2>2, LineHolds
      <3>2. /\ <<i>> \o Line \in Seq(Nat) /\ Len(<<i>> \o Line) = 1 + Len(Line)
            /\ Entries(<<i>> \o Line) = {i} \cup Entries(Line)
            /\ \A j \in 1 .. 1 : (<<i>> \o Line)[j] = <<i>>[j]
            /\ \A j \in 1 .. Len(Line) : (<<i>> \o Line)[1 + j] = Line[j]
        BY <2>2, <2>3, LineHolds
      <3>3. (<<i>> \o Line)[1] = i
        BY <2>2, <3>2
      <3>4. /\ Entries(queue') = {i} \cup Entries(queue) /\ queue' \in Seq(Nat)
        BY <2>1, <3>1
      <3>5. /\ Entries(Line') = {i} \cup Entries(Line)
            /\ Len(Line') = 1 + Len(Line) /\ Line' \in Seq(Nat)
            /\ Line'[1] = i /\ \A j \in 1 .. Len(Line) : Line'[1 + j] = Line[j]
        BY <2>3, <3>2, <3>3
      <3> QED  BY <3>4, <3>5
    <2>5. i \notin Entries(Line)
      BY <2>1 DEF NoticesInv
    <2>6. Once(Line')
      <3>1. DOMAIN Line' = 1 .. (1 + Len(Line)) /\ DOMAIN Line = 1 .. Len(Line)
        BY <2>3, <2>4
      <3>2. \A j \in DOMAIN Line' : j # 1 => j - 1 \in DOMAIN Line /\ Line'[j] = Line[j - 1]
                                             /\ j \in Nat
        <4> SUFFICES ASSUME NEW j \in 1 .. (1 + Len(Line)), j # 1
                     PROVE  j - 1 \in 1 .. Len(Line) /\ Line'[j] = Line[j - 1] /\ j \in Nat
          BY <3>1
        <4>1. j - 1 \in 1 .. Len(Line) /\ 1 + (j - 1) = j /\ j \in Nat
          BY <2>3
        <4> QED  BY <2>4, <4>1
      <3>3. \A j \in DOMAIN Line' : j # 1 => Line'[j] # i
        BY <2>5, <3>2 DEF Entries
      <3>4. \A j, k \in Nat : j - 1 = k - 1 => j = k
        OBVIOUS
      <3>5. \A j, k \in DOMAIN Line' : j # 1 /\ k # 1 /\ Line'[j] = Line'[k] => j = k
        <4> SUFFICES ASSUME NEW j \in DOMAIN Line', NEW k \in DOMAIN Line', j # 1, k # 1,
                            Line'[j] = Line'[k]
                     PROVE  j = k
          OBVIOUS
        <4>1. /\ j - 1 \in DOMAIN Line /\ Line'[j] = Line[j - 1] /\ j \in Nat
              /\ k - 1 \in DOMAIN Line /\ Line'[k] = Line[k - 1] /\ k \in Nat
          BY <3>2
        <4>2. Once(Line)
          BY DEF NoticesInv
        <4>3. j - 1 = k - 1
          BY <4>1, <4>2 DEF Once
        <4> QED  BY <3>4, <4>1, <4>3
      <3> QED  BY <2>4, <3>3, <3>5 DEF Once
    <2>7. Entries(queue)' = {i} \cup Entries(queue) /\ Entries(Line)' = {i} \cup Entries(Line)
          /\ Once(Line)' /\ UNCHANGED <<Entries(old), Settled>>
      <3>1. Entries(queue)' = {i} \cup Entries(queue) /\ Entries(Line)' = {i} \cup Entries(Line)
        BY <2>4 DEF Entries
      <3>2. Once(Line)'
        BY <2>6 DEF Once
      <3>3. UNCHANGED <<Entries(old), Settled>>
        BY <2>1 DEF Entries, Settled
      <3> QED  BY <3>1, <3>2, <3>3
    <2> QED  BY <1>0, <2>1, <2>4, <2>5, <2>7 DEF NoticesInv
  <1>4. ASSUME NEW f \in Callers, Nt!Ask(f) \/ Nt!Count(f) \/ \E n \in 0 .. Page + 1 : Nt!Fetch(f, n)
        PROVE  NoticesInv'
    <2>1. Len(queue) \in Nat /\ \A n \in 0 .. Page + 1 : n \in Nat
      BY <1>0
    <2>2. PICK c \in Caller : fetcher' = [fetcher EXCEPT ![f] = c]
      <3>1. [at |-> "all", n |-> 0] \in Caller /\ Nt!Idle \in Caller
            /\ \A n \in Nat : [at |-> "move", n |-> n] \in Caller
        BY DEF Nt!Idle
      <3>2. CASE Nt!Ask(f)
        BY <1>0, <3>1, <3>2 DEF Nt!Ask
      <3>3. CASE Nt!Count(f)
        BY <2>1, <3>1, <3>3 DEF Nt!Count
      <3>4. CASE \E n \in 0 .. Page + 1 : Nt!Fetch(f, n)
        BY <2>1, <3>1, <3>4 DEF Nt!Fetch
      <3> QED  BY <1>4, <3>2, <3>3, <3>4
    <2>3. fetcher' \in [Callers -> Caller]
      BY <1>0, <2>2
    <2>4. UNCHANGED <<queue, old, drawn, held, shown, dropped>>
      BY <1>4 DEF Nt!Ask, Nt!Count, Nt!Fetch
    <2> QED  BY <1>2, <2>3, <2>4
  <1>5. ASSUME NEW f \in Callers, NEW answered \in BOOLEAN, Nt!Move(f, answered)
        PROVE  NoticesInv'
    <2> DEFINE moved == Nt!Moved(fetcher[f].n)
               s == moved \o old
               n == fetcher[f].n
               rest == Len(queue) - Len(moved)
    <2>1. n \in Nat
      BY <1>0
    <2>2. /\ moved \in Seq(Nat) /\ Len(moved) <= Len(queue) /\ Len(moved) <= n
          /\ Len(queue) \in Nat /\ Len(moved) \in Nat /\ Len(old) \in Nat /\ rest \in Nat
          /\ \A i \in 1 .. Len(moved) : moved[i] = queue[rest + i]
      <3> HIDE DEF n
      <3>1. /\ Nt!Moved(n) \in Seq(Nat) /\ Len(Nt!Moved(n)) <= Len(queue)
            /\ Len(Nt!Moved(n)) <= n
            /\ \A i \in 1 .. Len(Nt!Moved(n)) :
                 Nt!Moved(n)[i] = queue[(Len(queue) - Len(Nt!Moved(n))) + i]
        BY <1>0, <2>1, MovedOf
      <3>2. moved = Nt!Moved(n)
        BY DEF n
      <3> HIDE DEF moved
      <3>3. Len(queue) \in Nat /\ Len(old) \in Nat
        BY <1>0
      <3> QED  BY <3>1, <3>2, <3>3
    <2>3. /\ s \in Seq(Nat) /\ Len(s) = Len(moved) + Len(old)
          /\ Entries(s) = Entries(moved) \cup Entries(old)
          /\ \A i \in 1 .. Len(moved) : s[i] = moved[i]
          /\ \A i \in 1 .. Len(old) : s[Len(moved) + i] = old[i]
      BY <1>0, <2>2, LineHolds
    <2>4. /\ queue' = Nt!Top(queue, rest) /\ old' = Nt!Top(s, SeenMax)
          /\ fetcher' = [fetcher EXCEPT ![f] = Nt!Idle] /\ UNCHANGED <<drawn, held>>
          /\ shown' = IF answered THEN shown \cup Entries(Nt!Answer(n)) ELSE shown
          /\ dropped' = IF answered THEN dropped ELSE dropped \cup Entries(moved)
      BY <1>5 DEF Nt!Move, Nt!ToSet, Entries
    <2>5. Nt!Answer(n) = (IF n = 0 THEN s ELSE Nt!Top(s, n))
      BY DEF Nt!Answer
    <2>6. fetcher' \in [Callers -> Caller]
      <3>1. Nt!Idle \in Caller
        BY DEF Nt!Idle
      <3> QED  BY <1>0, <2>4, <3>1
    <2> HIDE DEF moved, s, n, Caller
    <2>7. /\ queue' \in Seq(Nat) /\ Len(queue') = rest
          /\ \A i \in 1 .. rest : queue'[i] = queue[i]
      <3>1. rest <= Len(queue)
        BY <2>2
      <3> HIDE DEF rest
      <3> QED  BY <1>0, <2>2, <2>4, <3>1, TopOf
    <2>8. /\ old' \in Seq(Nat) /\ Len(old') <= Len(s)
          /\ \A i \in 1 .. Len(old') : old'[i] = s[i]
      <3>1. s \in Seq(Nat) /\ old' = Nt!Top(s, SeenMax) /\ SeenMax \in Nat
        BY <1>0, <2>3, <2>4
      <3> QED  BY <3>1, TopOf
    <2>9. Entries(queue') \subseteq Entries(queue) /\ Entries(moved) \subseteq Entries(queue)
      <3>1. Len(queue') <= Len(queue) /\ \A i \in 1 .. Len(queue') : queue'[i] = queue[i]
        BY <2>2, <2>7
      <3>2. Entries(queue') \subseteq Entries(queue)
        BY <1>0, <2>7, <3>1, BeginOfLine
      <3>5. Len(moved) + rest <= Len(queue)
        BY <2>2
      <3> HIDE DEF rest
      <3>3. Len(moved) + rest <= Len(queue) /\ \A i \in 1 .. Len(moved) : moved[i] = queue[i + rest]
        <4> SUFFICES ASSUME NEW i \in 1 .. Len(moved) PROVE moved[i] = queue[i + rest]
          BY <3>5
        <4>1. i + rest = rest + i
          BY <2>2
        <4> QED  BY <2>2, <4>1
      <3>4. Entries(moved) \subseteq Entries(queue)
        BY <1>0, <2>2, <3>3, PartOfLine
      <3> QED  BY <3>2, <3>4
    <2>10. Entries(old') \subseteq Entries(moved) \cup Entries(old)
      BY <2>3, <2>8, BeginOfLine
    <2>11. Entries(queue) \subseteq Entries(queue') \cup Entries(moved)
      <3> SUFFICES ASSUME NEW i \in 1 .. Len(queue)
                   PROVE  queue[i] \in Entries(queue') \cup Entries(moved)
        BY <1>0 DEF Entries
      <3>1. CASE i <= rest
        <4>1. i \in DOMAIN queue' /\ queue'[i] = queue[i]
          BY <2>2, <2>7, <3>1
        <4> QED  BY <4>1 DEF Entries
      <3>2. CASE i > rest
        <4>1. i - rest \in 1 .. Len(moved) /\ rest + (i - rest) = i
          BY <2>2, <3>2
        <4>2. i - rest \in DOMAIN moved /\ moved[i - rest] = queue[i]
          <5>1. DOMAIN moved = 1 .. Len(moved)
            BY <2>2
          <5> DEFINE j == i - rest
          <5>2. j \in 1 .. Len(moved) /\ rest + j = i
            BY <4>1
          <5> HIDE DEF j, rest
          <5>3. j \in DOMAIN moved /\ moved[j] = queue[i]
            BY <2>2, <5>1, <5>2
          <5> QED  BY <5>3 DEF j, rest
        <4> QED  BY <4>2 DEF Entries
      <3> QED  BY <2>2, <3>1, <3>2
    <2>12. Entries(moved) \subseteq Entries(Nt!Answer(n))
      <3>1. CASE n = 0
        BY <2>3, <2>5, <3>1
      <3>2. CASE n # 0
        <4> DEFINE top == Nt!Top(s, n)
        <4>0. Nt!Answer(n) = top
          BY <2>5, <3>2
        <4>3. /\ top \in Seq(Nat) /\ (n <= Len(s) => Len(top) = n)
              /\ (n > Len(s) => Len(top) = Len(s))
              /\ \A i \in 1 .. Len(top) : top[i] = s[i]
          BY <2>1, <2>3, TopOf
        <4> HIDE DEF top
        <4>4. Len(moved) <= Len(top)
          BY <2>1, <2>2, <2>3, <4>3
        <4>1. /\ Nt!Answer(n) \in Seq(Nat) /\ Len(moved) <= Len(Nt!Answer(n))
              /\ \A i \in 1 .. Len(Nt!Answer(n)) : Nt!Answer(n)[i] = s[i]
          BY <4>0, <4>3, <4>4
        <4>2. \A i \in 1 .. Len(moved) : moved[i] = Nt!Answer(n)[i]
          BY <2>2, <2>3, <4>1
        <4> QED  BY <2>2, <4>1, <4>2, BeginOfLine
      <3> QED  BY <3>1, <3>2
    <2>13. Entries(Nt!Answer(n)) \subseteq Entries(moved) \cup Entries(old)
      <3>1. CASE n = 0
        BY <2>3, <2>5, <3>1
      <3>2. CASE n # 0
        <4>0. Nt!Answer(n) = Nt!Top(s, n)
          BY <2>5, <3>2
        <4>1. /\ Nt!Answer(n) \in Seq(Nat) /\ Len(Nt!Answer(n)) <= Len(s)
              /\ \A i \in 1 .. Len(Nt!Answer(n)) : Nt!Answer(n)[i] = s[i]
          BY <2>1, <2>3, <4>0, TopOf
        <4> QED  BY <2>3, <4>1, BeginOfLine
      <3> QED  BY <3>1, <3>2
    <2>14. /\ Len(queue') + Len(old') + 0 <= Len(Line)
           /\ \A i \in 1 .. (Len(queue') + Len(old')) : Line'[i] = Line[i + 0]
      <3>1. /\ Len(Line) = Len(queue) + Len(old)
            /\ \A i \in 1 .. Len(queue) : Line[i] = queue[i]
            /\ \A i \in 1 .. Len(old) : Line[Len(queue) + i] = old[i]
        BY <1>0, LineHolds DEF Line
      <3>2. /\ \A i \in 1 .. Len(queue') : Line'[i] = queue'[i]
            /\ \A i \in 1 .. Len(old') : Line'[Len(queue') + i] = old'[i]
        BY <2>7, <2>8, LineHolds DEF Line
      <3>3. rest \in Nat /\ Len(queue) = rest + Len(moved) /\ Len(queue') = rest
            /\ Len(old') \in Nat /\ Len(old') <= Len(moved) + Len(old)
        BY <2>2, <2>3, <2>7, <2>8
      <3> HIDE DEF rest
      <3>4. \A i \in 1 .. rest : Line'[i] = Line[i]
        BY <2>2, <2>7, <3>1, <3>2, <3>3
      <3>5. \A i \in 1 .. Len(old') : Line'[rest + i] = Line[rest + i]
        <4> SUFFICES ASSUME NEW i \in 1 .. Len(old') PROVE s[i] = Line[rest + i]
          BY <2>8, <3>2, <3>3
        <4>1. CASE i <= Len(moved)
          <5>1. i \in 1 .. Len(moved) /\ rest + i \in 1 .. Len(queue)
            BY <2>2, <3>3, <4>1
          <5> QED  BY <2>2, <2>3, <3>1, <5>1
        <4>2. CASE i > Len(moved)
          <5>1. i - Len(moved) \in 1 .. Len(old) /\ Len(moved) + (i - Len(moved)) = i
                /\ Len(queue) + (i - Len(moved)) = rest + i
            BY <2>2, <3>3, <4>2
          <5> QED  BY <2>3, <3>1, <5>1, ZenonT(40)
        <4> QED  BY <2>2, <4>1, <4>2
      <3> SUFFICES ASSUME NEW i \in 1 .. (rest + Len(old')) PROVE Line'[i] = Line[i]
        BY <2>2, <3>1, <3>3
      <3>6. CASE i <= rest
        BY <3>3, <3>4, <3>6
      <3>7. CASE i > rest
        <4>1. i - rest \in 1 .. Len(old') /\ rest + (i - rest) = i
          BY <3>3, <3>7
        <4> QED  BY <3>5, <4>1
      <3> QED  BY <3>3, <3>6, <3>7
    <2>15. Entries(old') \subseteq Settled' /\ Settled \subseteq Settled'
           /\ Settled' \subseteq Settled \cup Entries(queue)
           /\ Entries(queue) \subseteq Entries(queue') \cup Settled'
      <3>1. Settled' = Settled \cup IF answered THEN Entries(Nt!Answer(n)) ELSE Entries(moved)
        BY <2>4 DEF Settled
      <3>2. Entries(old) \subseteq Settled
        BY DEF NoticesInv
      <3> QED  BY <2>9, <2>10, <2>11, <2>12, <2>13, <3>1, <3>2
    <2>16. Entries(queue)' = Entries(queue') /\ Entries(old)' = Entries(old')
      BY DEF Entries
    <2> QED  BY <2>4, <2>6, <2>7, <2>8, <2>9, <2>14, <2>15, <2>16, NoticesStay DEF Caller
  <1>6. ASSUME NEW f \in Callers, Nt!Clear(f) PROVE NoticesInv'
    <2>1. /\ dropped' = dropped \cup Entries(queue) /\ queue' = <<>>
          /\ fetcher' = [fetcher EXCEPT ![f].at = "clear"] /\ UNCHANGED <<old, drawn, held, shown>>
      BY <1>6 DEF Nt!Clear, Nt!ToSet, Entries
    <2>2. fetcher' \in [Callers -> Caller]
      BY <1>0, <2>1
    <2>3. queue' \in Seq(Nat) /\ old' \in Seq(Nat) /\ Len(queue') = 0 /\ Entries(queue') = {}
          /\ Line' = old
      BY <1>0, <2>1, ConcatEmptySeq DEF Line, Entries
    <2>4. /\ Len(Line) = Len(queue) + Len(old) /\ Len(queue) \in Nat /\ Len(old) \in Nat
          /\ \A i \in 1 .. Len(old) : Line[Len(queue) + i] = old[i]
      BY <1>0, LineHolds DEF Line
    <2>5. /\ Len(queue') + Len(old') + Len(queue) <= Len(Line)
          /\ \A i \in 1 .. (Len(queue') + Len(old')) : Line'[i] = Line[i + Len(queue)]
      BY <2>1, <2>3, <2>4
    <2>6. Settled' = Settled \cup Entries(queue)
      BY <2>1 DEF Settled
    <2>7. Entries(queue)' = {} /\ Entries(old)' = Entries(old) /\ Entries(old) \subseteq Settled
      BY <2>1, <2>3 DEF Entries, NoticesInv
    <2> QED  BY <2>1, <2>2, <2>3, <2>4, <2>5, <2>6, <2>7, NoticesStay
  <1>7. ASSUME NEW f \in Callers, Nt!ClearOld(f) PROVE NoticesInv'
    <2>1. /\ dropped' = dropped \cup Entries(old) /\ old' = <<>>
          /\ fetcher' = [fetcher EXCEPT ![f] = Nt!Idle] /\ UNCHANGED <<queue, drawn, held, shown>>
      BY <1>7 DEF Nt!ClearOld, Nt!ToSet, Entries
    <2>2. fetcher' \in [Callers -> Caller]
      <3>1. Nt!Idle \in Caller
        BY DEF Nt!Idle
      <3> QED  BY <1>0, <2>1, <3>1
    <2>3. queue' \in Seq(Nat) /\ old' \in Seq(Nat) /\ Len(old') = 0 /\ Entries(old') = {}
          /\ Line' = queue
      BY <1>0, <2>1, ConcatEmptySeq DEF Line, Entries
    <2>4. /\ Len(Line) = Len(queue) + Len(old) /\ Len(queue) \in Nat /\ Len(old) \in Nat
          /\ \A i \in 1 .. Len(queue) : Line[i] = queue[i]
      BY <1>0, LineHolds DEF Line
    <2>5. /\ Len(queue') + Len(old') + 0 <= Len(Line)
          /\ \A i \in 1 .. (Len(queue') + Len(old')) : Line'[i] = Line[i + 0]
      BY <2>1, <2>3, <2>4
    <2>6. Settled' = Settled
      BY <2>1 DEF Settled, NoticesInv
    <2>7. Entries(queue)' = Entries(queue) /\ Entries(old)' = {}
      BY <2>1, <2>3 DEF Entries
    <2> QED  BY <2>1, <2>2, <2>3, <2>5, <2>6, <2>7, NoticesStay
  <1>8. CASE Nt!Kill
    <2>1. /\ held' = {} /\ fetcher' = [f \in Callers |-> Nt!Idle] /\ dropped' = dropped \cup held
          /\ UNCHANGED <<queue, old, drawn, shown>>
      BY <1>8 DEF Nt!Kill
    <2>2. fetcher' \in [Callers -> Caller]
      BY <2>1 DEF Nt!Idle
    <2>3. UNCHANGED <<Entries(queue), Entries(old), Entries(Line), Once(Line)>>
          /\ Settled' = Settled \cup held
      BY <2>1 DEF Entries, Once, Line, Settled
    <2> QED  BY <2>1, <2>2, <2>3 DEF NoticesInv
  <1>9. CASE UNCHANGED Nt!vars
    BY <1>0, <1>2, <1>9 DEF Nt!vars
  <1>10. CASE Nt!Push \/ \E told \in BOOLEAN : Nt!StellarJob(told)
    BY <1>0, <1>1, <1>2, <1>10 DEF Nt!Push, Nt!StellarJob
  <1> QED  BY <1>3, <1>4, <1>5, <1>6, <1>7, <1>8, <1>9, <1>10 DEF Nt!Next

\* The behaviours of Server are behaviours of Notices.
LEMMA NoticesSteps == Spec => Nt!Spec
  <1>1. Init => Nt!Init
    BY DEF Init
  <1>2. [Next]_vars => [Nt!Next]_(Nt!vars)
    BY DEF Next, vars, PackagesRuns, BackupRuns, CrontabRuns, NoticesRuns, MailsRuns,
       IdentityRuns, WalletsRuns, LoginRuns, CertificatesRuns, PollsRuns, noticesVars, Nt!vars
  <1> QED  BY <1>1, <1>2, PTL DEF Spec, Nt!Spec

\* The queue of notices keep what is promised, in every state.
LEMMA NoticesKept == Spec => []Nt!NoticesKept
  <1>1. NoticesInv => Nt!NoticesKept
    <2> SUFFICES ASSUME NoticesInv PROVE Nt!NoticesKept
      OBVIOUS
    <2>1. Entries(Line) = Entries(queue) \cup Entries(old)
      BY LineHolds DEF NoticesInv, Line
    <2>2. 1 .. drawn = held \cup Entries(Line) \cup shown \cup dropped
      BY <2>1 DEF NoticesInv, Settled
    <2>3. Nt!ToSet(queue \o old) = Entries(Line) /\ (Nt!IsInjective(queue \o old) <=> Once(Line))
      BY DEF Nt!ToSet, Entries, Line, Nt!IsInjective, Once
    <2> QED  BY <2>2, <2>3 DEF NoticesInv, Nt!NoticesKept
  <1> QED  BY <1>1, NoticesInit, NoticesNext, NoticesSteps, PTL DEF Nt!Spec

-----------------------------------------------------------------------------
(* Mails.                                                                  *)

Queued(m) == \E i \in DOMAIN outbox : outbox[i] = m
InHands(m) == \E n \in Callers : taken[n] = m

\* Each mail is in one place: in the list, in one notifier's hands, or sent once or
\* gone for good.
MailsInv ==
    /\ mailed \in 0 .. MaxMails
    /\ outbox \in Seq(1 .. mailed)
    /\ taken \in [Callers -> 0 .. mailed]
    /\ sent \in [1 .. MaxMails -> Nat]
    /\ \A i, j \in DOMAIN outbox : outbox[i] = outbox[j] => i = j
    /\ \A n, k \in Callers : taken[n] # 0 /\ taken[n] = taken[k] => n = k
    /\ \A n \in Callers : taken[n] # 0 => ~Queued(taken[n])
    /\ \A m \in 1 .. MaxMails :
         sent[m] <= 1 /\ (sent[m] = 1 => m <= mailed /\ ~Queued(m) /\ ~InHands(m))

\* The invariant of the mail notifier holds at first.
LEMMA MailsInit == Ml!Init => MailsInv
  <1> SUFFICES ASSUME Ml!Init PROVE MailsInv
    OBVIOUS
  <1>1. MaxMails \in Nat
    BY ServerAssumption DEF ServerAssumption, Ml!MailsAssumption
  <1> QED  BY <1>1 DEF Ml!Init, MailsInv, Queued, InHands

\* Every step of the mail notifier keeps its invariant.
LEMMA MailsNext ==
  ASSUME MailsInv, [Ml!Next]_(Ml!vars)
  PROVE  MailsInv'
  <1>0. /\ MaxMails \in Nat /\ mailed \in Nat /\ mailed <= MaxMails
        /\ outbox \in Seq(1 .. mailed)
        /\ taken \in [Callers -> 0 .. mailed]
        /\ sent \in [1 .. MaxMails -> Nat]
    BY ServerAssumption DEF ServerAssumption, Ml!MailsAssumption, MailsInv
  <1>1. CASE UNCHANGED <<outbox, mailed, taken, sent>>
    BY <1>1 DEF MailsInv, Queued, InHands
  <1>2. CASE Ml!Report
    <2>1. mailed' = mailed + 1 /\ outbox' = Append(outbox, mailed + 1) /\ UNCHANGED <<taken, sent>>
          /\ mailed + 1 \in 0 .. MaxMails
      BY <1>0, <1>2 DEF Ml!Report
    <2>2. outbox \in Seq(1 .. (mailed + 1))
      BY <1>0, SeqMonotonic
    <2>3. /\ outbox' \in Seq(1 .. mailed') /\ Len(outbox') = Len(outbox) + 1
          /\ DOMAIN outbox = 1 .. Len(outbox) /\ DOMAIN outbox' = 1 .. (Len(outbox) + 1)
          /\ Len(outbox) \in Nat
          /\ \A i \in 1 .. Len(outbox) : outbox'[i] = outbox[i] /\ outbox[i] \in 1 .. mailed
          /\ outbox'[Len(outbox) + 1] = mailed + 1
      BY <1>0, <2>1, <2>2, AppendProperties, ElementOfSeq
    <2>4. \A i, j \in DOMAIN outbox' : outbox'[i] = outbox'[j] => i = j
      <3> SUFFICES ASSUME NEW i \in DOMAIN outbox', NEW j \in DOMAIN outbox',
                          outbox'[i] = outbox'[j]
                   PROVE  i = j
        OBVIOUS
      <3> DEFINE len == Len(outbox)
      <3>1. len \in Nat /\ i \in 1 .. (len + 1) /\ j \in 1 .. (len + 1)
        BY <2>3
      <3>2. \A k \in 1 .. len : outbox'[k] # mailed + 1
        BY <1>0, <2>3
      <3>3. CASE i \in 1 .. len /\ j \in 1 .. len
        BY <2>3, <3>3 DEF MailsInv
      <3> HIDE DEF len
      <3>4. CASE i = len + 1 \/ j = len + 1
        BY <2>3, <3>1, <3>2, <3>4 DEF len
      <3> QED  BY <3>1, <3>3, <3>4
    <2>5. \A m \in Nat : Queued(m)' <=> Queued(m) \/ m = mailed + 1
      BY <2>3 DEF Queued
    <2>6. taken' \in [Callers -> 0 .. mailed']
      BY <1>0, <2>1
    <2> QED  BY <1>0, <2>1, <2>3, <2>4, <2>5, <2>6, SMTT(30) DEF MailsInv, InHands
  <1>3. ASSUME NEW n \in Callers, Ml!Take(n) PROVE MailsInv'
    <2>1. /\ taken[n] = 0 /\ outbox # <<>> /\ taken' = [taken EXCEPT ![n] = Head(outbox)]
          /\ outbox' = Tail(outbox) /\ UNCHANGED <<mailed, sent>>
      BY <1>3 DEF Ml!Take
    <2>2. /\ Head(outbox) = outbox[1] /\ 1 \in DOMAIN outbox /\ outbox[1] \in 1 .. mailed
          /\ outbox' \in Seq(1 .. mailed)
          /\ \A i \in DOMAIN outbox' : i + 1 \in DOMAIN outbox /\ i + 1 # 1 /\ i \in Nat
                                       /\ outbox'[i] = outbox[i + 1]
          /\ \A j \in DOMAIN outbox : j # 1 => j - 1 \in DOMAIN outbox' /\ (j - 1) + 1 = j
      <3>1. outbox' \in Seq(1 .. mailed) /\ Len(outbox) \in Nat /\ Len(outbox) >= 1
            /\ Len(outbox') = Len(outbox) - 1
            /\ DOMAIN outbox = 1 .. Len(outbox) /\ DOMAIN outbox' = 1 .. Len(outbox')
        BY <1>0, <2>1, HeadTailProperties, EmptySeq
      <3>2. Head(outbox) = outbox[1] /\ outbox[1] \in 1 .. mailed
        BY <1>0, <2>1, HeadTailProperties
      <3>3. \A i \in 1 .. Len(outbox') : outbox'[i] = outbox[i + 1]
        BY <1>0, <2>1, HeadTailProperties
      <3> QED  BY <3>1, <3>2, <3>3
    <2>3. \A i, j \in DOMAIN outbox' : outbox'[i] = outbox'[j] => i = j
      BY <2>2 DEF MailsInv
    <2>4. \A m : (\E i \in DOMAIN outbox' : outbox'[i] = m) => Queued(m) /\ m # outbox[1]
      BY <2>2 DEF MailsInv, Queued
    <2>5. taken' \in [Callers -> 0 .. mailed] /\ taken'[n] = outbox[1]
          /\ \A k \in Callers \ {n} : taken'[k] = taken[k]
      BY <1>0, <2>1, <2>2
    <2>6. \A k \in Callers : taken[k] # outbox[1]
      BY <1>0, <2>2 DEF MailsInv, Queued
    <2>7. sent[outbox[1]] # 1
      BY <1>0, <2>2 DEF MailsInv, Queued
    <2>8. \A m : InHands(m)' => InHands(m) \/ m = outbox[1]
      BY <2>5 DEF InHands
    <2>9. \A k, l \in Callers : taken'[k] # 0 /\ taken'[k] = taken'[l] => k = l
      BY <2>5, <2>6 DEF MailsInv
    <2>10. \A k \in Callers : taken'[k] # 0 => ~\E i \in DOMAIN outbox' : outbox'[i] = taken'[k]
      BY <2>4, <2>5 DEF MailsInv
    <2> QED  BY <1>0, <2>1, <2>2, <2>3, <2>4, <2>5, <2>7, <2>8, <2>9, <2>10, SMTT(30) DEF MailsInv, Queued
  <1>4. ASSUME NEW n \in Callers, NEW ok \in BOOLEAN, Ml!Send(n, ok) PROVE MailsInv'
    <2>1. /\ taken[n] # 0 /\ taken' = [taken EXCEPT ![n] = 0] /\ UNCHANGED <<outbox, mailed>>
          /\ sent' = IF ok THEN [sent EXCEPT ![taken[n]] = @ + 1] ELSE sent
      BY <1>4 DEF Ml!Send
    <2> DEFINE m == taken[n]
    <2>2. m \in 1 .. mailed /\ m \in 1 .. MaxMails /\ sent[m] = 0
      BY <1>0, <2>1, SMTT(30) DEF MailsInv, InHands
    <2>3. /\ taken' \in [Callers -> 0 .. mailed] /\ taken'[n] = 0
          /\ \A k \in Callers \ {n} : taken'[k] = taken[k] /\ (taken[k] # 0 => taken[k] # m)
      BY <1>0, <2>1 DEF MailsInv
    <2>4. /\ sent' \in [1 .. MaxMails -> Nat] /\ sent'[m] \in {0, 1}
          /\ \A x \in 1 .. MaxMails : x # m => sent'[x] = sent[x]
      BY <1>0, <2>1, <2>2
    <2>5. ~Queued(m) /\ \A k \in Callers : taken'[k] # m
      BY <2>1, <2>2, <2>3 DEF MailsInv
    <2>6. \A x \in 1 .. MaxMails : (\E k \in Callers : taken'[k] = x) => InHands(x)
      BY <2>3 DEF InHands
    <2> HIDE DEF m
    <2> QED  BY <1>0, <2>1, <2>2, <2>3, <2>4, <2>5, <2>6 DEF MailsInv, Queued, InHands
  <1>5. CASE Ml!Kill
    BY <1>0, <1>5 DEF Ml!Kill, MailsInv, Queued, InHands
  <1>6. ASSUME NEW a \in Callers, Ml!ReadEmails(a) \/ Ml!WriteEmails(a)
        PROVE  UNCHANGED <<outbox, mailed, taken, sent>>
    BY <1>6 DEF Ml!ReadEmails, Ml!WriteEmails
  <1>7. CASE UNCHANGED Ml!vars
    BY <1>1, <1>7 DEF Ml!vars
  <1> QED  BY <1>1, <1>2, <1>3, <1>4, <1>5, <1>6, <1>7 DEF Ml!Next

\* The behaviours of Server are behaviours of Mails.
LEMMA MailsSteps == Spec => Ml!Spec
  <1>1. Init => Ml!Init
    BY DEF Init
  <1>2. [Next]_vars => [Ml!Next]_(Ml!vars)
    BY DEF Next, vars, PackagesRuns, BackupRuns, CrontabRuns, NoticesRuns, MailsRuns,
       IdentityRuns, WalletsRuns, LoginRuns, CertificatesRuns, PollsRuns, mailsVars, Ml!vars
  <1> QED  BY <1>1, <1>2, PTL DEF Spec, Ml!Spec

\* The mail notifier keeps what is promised, in every state.
LEMMA MailsKept == Spec => []Ml!MailedOnce
  <1>1. MailsInv => Ml!MailedOnce
    <2> SUFFICES ASSUME MailsInv PROVE Ml!MailedOnce
      OBVIOUS
    <2>1. outbox \in Seq(1 .. mailed) /\ DOMAIN outbox = 1 .. Len(outbox)
      BY DEF MailsInv
    <2>2. \A m : m \in Ml!ToSet(outbox) <=> Queued(m)
      BY <2>1 DEF Ml!ToSet, Queued
    <2> QED  BY <2>2, ServerAssumption
             DEF MailsInv, Ml!MailedOnce, InHands, ServerAssumption, Ml!MailsAssumption
  <1> QED  BY <1>1, MailsInit, MailsNext, MailsSteps, PTL DEF Ml!Spec

-----------------------------------------------------------------------------
(* Wallets.                                                                *)

Calls == [at : {"idle", "activate", "trust", "fund activate", "fund trust", "fund",
                "import", "update"},
          wallet : Nat, tries : Int, alone : BOOLEAN]
Working(c) == call[c].at # "idle" /\ call[c].alone
Making(c) == Working(c) /\ call[c].at # "update"

\* A call whose instance nobody deleted works on the one that has the name; only one
\* makes it, and while it does nobody was given a wallet.
WalletsInv ==
    /\ memory \in Nat /\ store \in Nat /\ wallets \in Nat
    /\ call \in [Callers -> Calls]
    /\ \A c \in Callers : Working(c) =>
         /\ call[c].wallet = Wl!The /\ Wl!The # 0
         /\ call[c].at = "fund" => store = Wl!The
    /\ \A w \in kept : w = store /\ w = Wl!The /\ w # 0
    /\ \A c, d \in Callers : Making(c) /\ Making(d) => c = d
    /\ \A c \in Callers : Making(c) => kept = {}

\* The invariant of the wallets holds at first.
LEMMA WalletsInit == Wl!Init => WalletsInv
  <1> SUFFICES ASSUME Wl!Init PROVE WalletsInv
    OBVIOUS
  <1>1. memory = 0 /\ store = 0 /\ wallets = 0 /\ kept = {}
    BY DEF Wl!Init, Wl!None
  <1>2. call \in [Callers -> Calls] /\ \A c \in Callers : call[c].at = "idle"
    BY DEF Wl!Init, Wl!Idle, Wl!None, Calls
  <1> QED  BY <1>1, <1>2 DEF WalletsInv, Working, Making

\* Every step of the wallets keeps its invariant.
LEMMA WalletsNext ==
  ASSUME WalletsInv, [Wl!Next]_(Wl!vars)
  PROVE  WalletsInv'
  <1>0. /\ memory \in Nat /\ store \in Nat /\ wallets \in Nat
        /\ call \in [Callers -> Calls] /\ Wl!The \in Nat
        /\ \A c \in Callers : call[c] \in Calls
    BY DEF WalletsInv, Wl!The
  \* One call goes on, with the same wallet and the same name.
  <1>1. ASSUME NEW c \in Callers, NEW r \in Calls, call' = [call EXCEPT ![c] = r],
               UNCHANGED <<memory, store, kept, wallets>>, call[c].at # "idle",
               r.at = "idle" \/ /\ r.wallet = call[c].wallet /\ r.alone = call[c].alone
                                /\ r.at = "update" <=> call[c].at = "update"
                                /\ r.at # "fund" \/ call[c].at = "fund"
        PROVE  WalletsInv'
    <2>1. call' \in [Callers -> Calls] /\ call'[c] = r
          /\ \A d \in Callers \ {c} : call'[d] = call[d]
      BY <1>0, <1>1
    <2>2. \A d \in Callers : /\ Working(d)' => Working(d) /\ call'[d].wallet = call[d].wallet
                                               /\ (call'[d].at = "fund" => call[d].at = "fund")
                             /\ Making(d)' => Making(d)
      BY <1>1, <2>1 DEF Working, Making
    <2>3. Wl!The' = Wl!The
      BY <1>1 DEF Wl!The
    <2> QED  BY <1>0, <1>1, <2>1, <2>2, <2>3 DEF WalletsInv
  \* Everybody else's instance is gone, or not the one that is saved.
  <1>2. ASSUME NEW c \in Callers, NEW r \in Calls, Wl!Disturbs(c, r),
               r.at = "idle" \/ ~r.alone, kept' = {},
               memory' \in Nat, store' \in Nat, wallets' \in Nat
        PROVE  WalletsInv'
    <2>1. call' \in [Callers -> Calls] /\ \A d \in Callers : ~Working(d)'
      BY <1>0, <1>2 DEF Wl!Disturbs, Calls, Working
    <2> QED  BY <1>2, <2>1 DEF WalletsInv, Making
  <1>3. Wl!Idle \in Calls /\ Wl!Idle.at = "idle"
    BY DEF Wl!Idle, Wl!None, Calls
  <1>4. ASSUME NEW c \in Callers, Wl!DeleteOwn(c), UNCHANGED wallets, call[c].at # "idle",
               call[c].at # "update"
        PROVE  WalletsInv'
    <2>1. kept' = {}
      BY <1>4 DEF Wl!DeleteOwn, Wl!Kept, WalletsInv, Making, Working
    <2> QED  BY <1>0, <1>2, <1>3, <1>4, <2>1 DEF Wl!DeleteOwn, Wl!Delete, Wl!None
  <1>5. ASSUME NEW c \in Callers, NEW at, at \in {"fund activate", "activate", "import"},
               ~Wl!Found, Wl!New(c, at), UNCHANGED <<store, kept>>
        PROVE  WalletsInv'
    <2>1. memory = 0 /\ store = 0 /\ Wl!The = 0
      BY <1>5 DEF Wl!Found, Wl!None, Wl!The
    <2>2. kept = {} /\ \A d \in Callers : ~Working(d)
      BY <2>1 DEF WalletsInv
    <2>0. Tries \in Int /\ wallets + 1 \in Nat /\ wallets + 1 # 0
      BY <1>0, ServerAssumption DEF ServerAssumption, Wl!WalletsAssumption
    <2> DEFINE r == [at |-> at, wallet |-> wallets + 1, tries |-> Tries, alone |-> TRUE]
    <2>3. r \in Calls
      BY <1>5, <2>0 DEF Calls
    <2>4. memory' = wallets + 1 /\ wallets' = wallets + 1 /\ call' = [call EXCEPT ![c] = r]
      BY <1>5 DEF Wl!New
    <2>5. call' \in [Callers -> Calls] /\ \A d \in Callers : Working(d)' => d = c /\ call'[d] = r
      BY <1>0, <2>2, <2>3, <2>4 DEF Working
    <2>6. memory' \in Nat /\ wallets' \in Nat /\ memory' # 0 /\ Wl!The' = memory' /\ r.wallet = memory'
          /\ r.at # "fund"
      <3>2. r.wallet = wallets + 1 /\ r.at # "fund"
        BY <1>5
      <3> HIDE DEF r
      <3> QED  BY <2>0, <2>4, <3>2 DEF Wl!The, Wl!None
    <2> QED  BY <1>0, <1>5, <2>2, <2>5, <2>6 DEF WalletsInv, Making
  \* A call saves, and either goes on or is done.
  <1>6. ASSUME NEW c \in Callers, NEW r \in Calls, Wl!Save(c, r), call[c].at # "idle",
               UNCHANGED <<memory, wallets>>,
               \/ r.at = "idle" /\ (Wl!Given(c) \/ Wl!Kept(c))
               \/ /\ r.at = "fund" /\ r.wallet = call[c].wallet /\ r.alone = call[c].alone
                  /\ Wl!Kept(c),
               call[c].at = "update" => r.at = "idle" /\ Wl!Kept(c)
        PROVE  WalletsInv'
    <2>1. call[c].wallet \in Nat /\ store' = call[c].wallet
      BY <1>0, <1>6 DEF Wl!Save, Calls
    <2>2. CASE ~call[c].alone
      <3>1. Wl!Disturbs(c, r) /\ kept' = {} /\ (r.at = "idle" \/ ~r.alone)
        BY <1>6, <2>2 DEF Wl!Save, Wl!Given, Wl!Kept
      <3> QED  BY <1>0, <1>2, <1>6, <2>1, <3>1
    <2>3. CASE call[c].alone
      <3>1. Working(c) /\ call[c].wallet = Wl!The /\ Wl!The # 0 /\ store' = Wl!The
        BY <1>6, <2>1, <2>3 DEF WalletsInv, Working
      <3>2. Wl!The' = Wl!The
        BY <1>6, <3>1 DEF Wl!The
      <3>3. call' = [call EXCEPT ![c] = r]
        BY <1>6, <2>3 DEF Wl!Save
      <3>4. call' \in [Callers -> Calls] /\ call'[c] = r
            /\ \A d \in Callers \ {c} : call'[d] = call[d]
        BY <1>0, <3>3
      <3>5. \A d \in Callers : Working(d)' => Working(d) /\ call'[d].wallet = Wl!The
        BY <1>6, <2>3, <3>1, <3>4 DEF WalletsInv, Working
      <3>6. \A d \in Callers : Making(d)' => Making(d)
        BY <1>6, <2>3, <3>1, <3>4 DEF Working, Making
      <3>7. kept' \subseteq kept \cup {Wl!The} /\ (kept' = kept \/ (r.at = "idle" /\ Making(c)))
        <4>1. CASE Wl!Kept(c)
          <5>1. kept' = kept
            BY <2>3, <4>1 DEF Wl!Kept
          <5> QED  BY <5>1
        <4>2. CASE ~Wl!Kept(c)
          <5>1. r.at = "idle" /\ Wl!Given(c) /\ call[c].at # "update"
            BY <1>6, <4>2
          <5> QED  BY <2>3, <3>1, <5>1 DEF Wl!Given, Making
        <4> QED  BY <4>1, <4>2
      <3>8. \A d \in Callers : Making(d)' => kept' = {}
        <4> SUFFICES ASSUME NEW d \in Callers, Making(d)' PROVE kept' = {}
          OBVIOUS
        <4>1. Making(d) /\ kept = {}
          BY <3>6 DEF WalletsInv
        <4>2. CASE kept' = kept
          BY <4>1, <4>2
        <4>3. CASE r.at = "idle" /\ Making(c)
          <5>1. d = c
            BY <4>1, <4>3 DEF WalletsInv
          <5> QED  BY <3>4, <4>3, <5>1 DEF Making, Working
        <4> QED  BY <3>7, <4>2, <4>3
      <3>9. \A w \in kept' : w = store' /\ w = Wl!The' /\ w # 0
        BY <3>1, <3>2, <3>7 DEF WalletsInv
      <3>10. \A d, e \in Callers : Making(d)' /\ Making(e)' => d = e
        BY <3>6 DEF WalletsInv
      <3> QED  BY <1>0, <1>6, <2>1, <3>1, <3>2, <3>4, <3>5, <3>8, <3>9, <3>10 DEF WalletsInv
    <2> QED  BY <2>2, <2>3
  <1>7. ASSUME NEW c \in Callers, NEW testnet \in BOOLEAN, Wl!Create(c, testnet)
        PROVE  WalletsInv'
    <2> DEFINE at == IF testnet THEN "fund activate" ELSE "activate"
    <2>1. at \in {"fund activate", "activate", "import"}
      OBVIOUS
    <2>2. ~Wl!Found /\ Wl!New(c, at) /\ UNCHANGED <<store, kept>>
      BY <1>7 DEF Wl!Create
    <2> HIDE DEF at
    <2> QED  BY <1>5, <2>1, <2>2
  <1>8. ASSUME NEW c \in Callers, Wl!Import(c) PROVE WalletsInv'
    <2>1. store = 0 /\ UNCHANGED kept
      BY <1>8 DEF Wl!Import, Wl!None
    <2>2. CASE memory # 0
      <3>1. Wl!Delete(c) /\ UNCHANGED wallets
        BY <1>8, <2>2 DEF Wl!Import, Wl!None
      <3>2. kept' = {}
        BY <2>1 DEF WalletsInv
      <3> QED  BY <1>0, <1>2, <1>3, <3>1, <3>2 DEF Wl!Delete, Wl!None
    <2>3. CASE memory = 0
      <3>1. ~Wl!Found /\ Wl!New(c, "import") /\ UNCHANGED <<store, kept>>
        BY <1>8, <2>1, <2>3 DEF Wl!Import, Wl!None, Wl!Found
      <3> QED  BY <1>5, <3>1
    <2> QED  BY <2>2, <2>3
  \* A call goes on: its record, with another stage or one try less.
  <1>9. ASSUME NEW c \in Callers, Wl!Activate(c) \/ Wl!ActivateLost(c) PROVE WalletsInv'
    <2>1. call[c] \in Calls /\ call[c].at \in {"activate", "fund activate"}
          /\ UNCHANGED <<memory, store, wallets, kept>>
      BY <1>0, <1>9 DEF Wl!Activate, Wl!ActivateLost, Wl!At
    <2>2. PICK r \in Calls : /\ call' = [call EXCEPT ![c] = r] /\ r.wallet = call[c].wallet
                             /\ r.alone = call[c].alone /\ r.at # "update" /\ r.at # "fund"
      <3>1. CASE Wl!Activate(c)
        <4> DEFINE r == [call[c] EXCEPT !.at = IF call[c].at = "activate" THEN "trust" ELSE "fund trust"]
        <4>1. call' = [call EXCEPT ![c] = r]
          BY <1>0, <3>1 DEF Wl!Activate, Wl!Goes, Wl!At
        <4>2. r \in Calls /\ r.wallet = call[c].wallet /\ r.alone = call[c].alone
              /\ r.at # "update" /\ r.at # "fund"
          BY <2>1 DEF Calls
        <4> HIDE DEF r
        <4> QED  BY <4>1, <4>2
      <3>2. CASE Wl!ActivateLost(c)
        <4> DEFINE r == [call[c] EXCEPT !.tries = @ - 1]
        <4>1. call' = [call EXCEPT ![c] = r]
          BY <1>0, <3>2 DEF Wl!ActivateLost
        <4>2. r \in Calls /\ r.wallet = call[c].wallet /\ r.alone = call[c].alone
              /\ r.at # "update" /\ r.at # "fund"
          <5>1. call[c].tries \in Int
            BY <2>1 DEF Calls
          <5>2. call[c].tries - 1 \in Int
            BY <5>1
          <5> QED  BY <2>1, <5>2 DEF Calls
        <4> HIDE DEF r
        <4> QED  BY <4>1, <4>2
      <3> QED  BY <1>9, <3>1, <3>2
    <2> QED  BY <1>1, <2>1, <2>2
  <1>10. ASSUME NEW c \in Callers, Wl!ActivateFails(c) PROVE WalletsInv'
    <2>1. call[c] \in Calls /\ call[c].at \in {"activate", "fund activate"} /\ UNCHANGED wallets
      BY <1>0, <1>10 DEF Wl!ActivateFails, Wl!At
    <2>2. CASE Wl!DeleteOwn(c)
      BY <1>4, <2>1, <2>2
    <2>3. CASE call' = [call EXCEPT ![c].tries = @ - 1] /\ UNCHANGED <<memory, store, kept>>
      <3> DEFINE r == [call[c] EXCEPT !.tries = @ - 1]
      <3>1. call' = [call EXCEPT ![c] = r]
        BY <1>0, <2>3
      <3>2. r \in Calls /\ r.wallet = call[c].wallet /\ r.alone = call[c].alone
            /\ r.at # "update" /\ r.at # "fund"
        <4>1. call[c].tries \in Int
          BY <2>1 DEF Calls
        <4>2. call[c].tries - 1 \in Int
          BY <4>1
        <4> QED  BY <2>1, <4>2 DEF Calls
      <3> HIDE DEF r
      <3> QED  BY <1>1, <2>1, <2>3, <3>1, <3>2
    <2> QED  BY <1>10, <2>2, <2>3 DEF Wl!ActivateFails
  <1>11. ASSUME NEW c \in Callers, Wl!Trust(c) PROVE WalletsInv'
    <2>1. call[c] \in Calls /\ call[c].at \in {"trust", "fund trust"} /\ UNCHANGED <<memory, wallets>>
      BY <1>0, <1>11 DEF Wl!Trust
    <2>2. CASE Wl!Save(c, Wl!Idle) /\ Wl!Given(c)
      BY <1>3, <1>6, <2>1, <2>2
    <2>3. CASE Wl!Save(c, [call[c] EXCEPT !.at = "fund"]) /\ Wl!Kept(c)
      <3> DEFINE r == [call[c] EXCEPT !.at = "fund"]
      <3>1. r \in Calls /\ r.wallet = call[c].wallet /\ r.alone = call[c].alone /\ r.at = "fund"
        BY <2>1 DEF Calls
      <3>2. Wl!Save(c, r)
        BY <2>3
      <3> HIDE DEF r
      <3> QED  BY <1>6, <2>1, <2>3, <3>1, <3>2
    <2> QED  BY <1>11, <2>2, <2>3 DEF Wl!Trust
  <1>12. ASSUME NEW c \in Callers, Wl!Funded(c) PROVE WalletsInv'
    <2>1. /\ call[c].at = "fund" /\ call' = [call EXCEPT ![c] = Wl!Idle] /\ Wl!Given(c)
          /\ UNCHANGED <<memory, store, wallets>>
      BY <1>12 DEF Wl!Funded, Wl!At
    <2>2. /\ call' \in [Callers -> Calls] /\ call'[c].at = "idle"
          /\ \A d \in Callers \ {c} : call'[d] = call[d]
      BY <1>0, <1>3, <2>1
    <2>3. \A d \in Callers : (Working(d)' => d # c /\ Working(d)) /\ (Making(d)' => d # c /\ Making(d))
      BY <2>2 DEF Working, Making
    <2>4. CASE call[c].alone
      <3>1. Making(c) /\ call[c].wallet = Wl!The /\ Wl!The # 0 /\ store = Wl!The
            /\ kept' = kept \cup {Wl!The}
        BY <2>1, <2>4 DEF WalletsInv, Working, Making, Wl!Given
      <3>2. \A d \in Callers : ~Making(d)'
        BY <2>3, <3>1 DEF WalletsInv
      <3>3. Wl!The' = Wl!The
        BY <2>1 DEF Wl!The
      <3> QED  BY <1>0, <2>1, <2>2, <2>3, <3>1, <3>2, <3>3 DEF WalletsInv
    <2>5. CASE ~call[c].alone
      <3>1. kept' = {} /\ Wl!The' = Wl!The
        BY <2>1, <2>5 DEF Wl!Given, Wl!The
      <3> QED  BY <1>0, <2>1, <2>2, <2>3, <3>1 DEF WalletsInv
    <2> QED  BY <2>4, <2>5
  <1>13. ASSUME NEW c \in Callers, Wl!Reverts(c) PROVE WalletsInv'
    BY <1>4, <1>13 DEF Wl!Reverts
  <1>14. ASSUME NEW c \in Callers, NEW ok \in BOOLEAN, Wl!ImportEnds(c, ok) PROVE WalletsInv'
    <2>1. call[c].at = "import" /\ UNCHANGED wallets
      BY <1>14 DEF Wl!ImportEnds, Wl!At
    <2>2. CASE Wl!Save(c, Wl!Idle) /\ Wl!Given(c) /\ UNCHANGED memory
      BY <1>3, <1>6, <2>1, <2>2
    <2>3. CASE Wl!DeleteOwn(c)
      BY <1>4, <2>1, <2>3
    <2> QED  BY <1>14, <2>2, <2>3 DEF Wl!ImportEnds
  <1>15. ASSUME NEW c \in Callers, Wl!Update(c) PROVE WalletsInv'
    <2> DEFINE r == [Wl!Idle EXCEPT !.at = "update", !.wallet = Wl!The]
    <2>1. Wl!The # 0
      BY <1>15 DEF Wl!Update, Wl!Found, Wl!The, Wl!None
    <2>2. call' = [call EXCEPT ![c] = r] /\ UNCHANGED <<memory, store, wallets, kept>>
      BY <1>15 DEF Wl!Update
    <2>3. r \in Calls /\ r.at = "update" /\ r.wallet = Wl!The
      BY <1>0, <1>3 DEF Calls, Wl!Idle, Wl!None
    <2> HIDE DEF r
    <2>4. call' \in [Callers -> Calls] /\ call'[c] = r /\ \A d \in Callers \ {c} : call'[d] = call[d]
      BY <1>0, <2>2, <2>3
    <2>5. Wl!The' = Wl!The
      BY <2>2 DEF Wl!The
    <2>6. \A d \in Callers : Making(d)' => Making(d)
      BY <2>3, <2>4 DEF Making, Working
    <2>7. \A d \in Callers : Working(d)' => call'[d].wallet = Wl!The /\ (call'[d].at = "fund" => store = Wl!The)
      BY <2>3, <2>4 DEF WalletsInv, Working
    <2> QED  BY <1>0, <2>1, <2>2, <2>4, <2>5, <2>6, <2>7 DEF WalletsInv
  <1>16. ASSUME NEW c \in Callers, NEW ok \in BOOLEAN, Wl!UpdateEnds(c, ok) PROVE WalletsInv'
    <2>1. call[c].at = "update" /\ UNCHANGED <<memory, wallets>>
      BY <1>16 DEF Wl!UpdateEnds, Wl!At
    <2>2. CASE Wl!Save(c, Wl!Idle) /\ Wl!Kept(c)
      BY <1>3, <1>6, <2>1, <2>2
    <2>3. CASE call' = [call EXCEPT ![c] = Wl!Idle] /\ UNCHANGED <<store, kept>>
      BY <1>1, <1>3, <2>1, <2>3
    <2> QED  BY <1>16, <2>2, <2>3 DEF Wl!UpdateEnds
  <1>17. ASSUME NEW c \in Callers, Wl!DeleteWallet(c) PROVE WalletsInv'
    BY <1>0, <1>2, <1>3, <1>17 DEF Wl!DeleteWallet, Wl!Delete, Wl!None
  <1>18. CASE Wl!Kill
    <2>1. /\ memory' = 0 /\ UNCHANGED <<store, wallets, kept>>
          /\ call' \in [Callers -> Calls] /\ \A c \in Callers : call'[c].at = "idle"
      BY <1>3, <1>18 DEF Wl!Kill, Wl!None
    <2>2. Wl!The' = store
      BY <2>1 DEF Wl!The, Wl!None
    <2> QED  BY <1>0, <2>1, <2>2 DEF WalletsInv, Working, Making
  <1>19. CASE UNCHANGED Wl!vars
    BY <1>19 DEF Wl!vars, WalletsInv, Working, Making, Wl!The
  <1> QED  BY <1>7, <1>8, <1>9, <1>10, <1>11, <1>12, <1>13, <1>14, <1>15, <1>16, <1>17, <1>18, <1>19
           DEF Wl!Next

\* The behaviours of Server are behaviours of Wallets.
LEMMA WalletsSteps == Spec => Wl!Spec
  <1>1. Init => Wl!Init
    BY DEF Init
  <1>2. [Next]_vars => [Wl!Next]_(Wl!vars)
    BY DEF Next, vars, PackagesRuns, BackupRuns, CrontabRuns, NoticesRuns, MailsRuns,
       IdentityRuns, WalletsRuns, LoginRuns, CertificatesRuns, PollsRuns, walletsVars, Wl!vars
  <1> QED  BY <1>1, <1>2, PTL DEF Spec, Wl!Spec

\* The wallets keep what is promised, in every state.
LEMMA WalletsKept == Spec => []Wl!GivenIsKept
  <1>1. WalletsInv => Wl!GivenIsKept
    BY DEF WalletsInv, Wl!GivenIsKept
  <1> QED  BY <1>1, WalletsInit, WalletsNext, WalletsSteps, PTL DEF Wl!Spec

-----------------------------------------------------------------------------
(* Identity.                                                               *)

IdentityInv ==
    /\ Id!TypeOK
    /\ Id!DefaultStands

\* The invariant of the identity holds at first.
LEMMA IdentityInit == Id!Init => IdentityInv
  BY DEF Id!Init, IdentityInv, Id!TypeOK, Id!DefaultStands, Id!Loaded

\* Every step of the identity keeps its invariant.
LEMMA IdentityNext ==
  ASSUME IdentityInv, [Id!Next]_(Id!vars)
  PROVE  IdentityInv'
  <1>0. /\ labels \subseteq Labels /\ default \in Labels \cup {Nobody}
        /\ admins \in [Labels -> SUBSET Admins]
        /\ me \in [Callers -> Labels \cup {Nobody}]
        /\ mine \in [Callers -> SUBSET Admins]
        /\ outdated \in [Callers -> BOOLEAN] /\ undone \in BOOLEAN
        /\ Nobody \notin Labels
    BY ServerAssumption DEF ServerAssumption, Id!IdentityAssumption, IdentityInv, Id!TypeOK
  <1>1. ASSUME NEW p \in Callers, Id!Me(p) PROVE IdentityInv'
    <2>1. PICK n \in labels : /\ default \in {n, Nobody} /\ me' = [me EXCEPT ![p] = n]
                              /\ mine' = [mine EXCEPT ![p] = admins[n]]
      BY <1>1 DEF Id!Me
    <2>2. outdated' = [outdated EXCEPT ![p] = FALSE] /\ UNCHANGED <<labels, admins, default, undone>>
      BY <1>1 DEF Id!Me
    <2>3. Id!TypeOK'
      BY <1>0, <2>1, <2>2 DEF Id!TypeOK
    <2>4. \A q \in Callers : q # p => me'[q] = me[q] /\ mine'[q] = mine[q] /\ outdated'[q] = outdated[q]
      BY <1>0, <2>1, <2>2
    <2>5. me'[p] = n /\ mine'[p] = admins[n]
      BY <1>0, <2>1
    <2> QED  BY <2>1, <2>2, <2>3, <2>4, <2>5 DEF IdentityInv, Id!DefaultStands, Id!Loaded
  \* A process that writes: the others have their copies of before.
  <1>2. ASSUME NEW p \in Callers, Id!Writes(p), UNCHANGED me,
               \A q \in Callers \ {p} : mine'[q] = mine[q], Id!TypeOK',
               undone' \/ default' \in labels' \cup {Nobody},
               Id!Loaded(p) /\ ~outdated[p] =>
                 me[p] \in labels' /\ mine'[p] = admins'[me[p]] /\ default' \in {me[p], Nobody}
        PROVE  IdentityInv'
    <2>1. \A q \in Callers : Id!Loaded(q)' /\ ~outdated'[q] => q = p /\ ~outdated[p] /\ Id!Loaded(p)
      BY <1>2 DEF Id!Writes, Id!Loaded
    <2> QED  BY <1>2, <2>1 DEF IdentityInv, Id!DefaultStands
  <1>3. ASSUME NEW p \in Callers, NEW n \in Labels, NEW A \in SUBSET Admins, Id!AddIdentity(p, n, A)
        PROVE  IdentityInv'
    <2>1. n \notin labels /\ labels' = labels \cup {n} /\ admins' = [admins EXCEPT ![n] = A]
          /\ Id!Writes(p) /\ UNCHANGED <<default, me, mine, undone>>
      BY <1>3 DEF Id!AddIdentity
    <2>2. Id!TypeOK'
      BY <1>0, <2>1 DEF Id!TypeOK, Id!Writes, Id!Loaded
    <2>3. Id!Loaded(p) /\ ~outdated[p] => /\ me[p] \in labels /\ mine[p] = admins[me[p]]
                                          /\ default \in {me[p], Nobody}
      BY DEF IdentityInv, Id!DefaultStands
    <2>4. \A l \in labels : l \in Labels /\ admins'[l] = admins[l]
      BY <1>0, <2>1
    <2>5. undone \/ default \in labels \cup {Nobody}
      BY DEF IdentityInv, Id!DefaultStands
    <2> QED  BY <1>2, <2>1, <2>2, <2>3, <2>4, <2>5
  <1>4. ASSUME NEW p \in Callers, NEW n \in Labels, Id!SetDefault(p, n) \/ Id!SetIdentity(p, n)
        PROVE  IdentityInv'
    <2>1. /\ labels' = labels \cup {n} /\ default' = n /\ Id!Forgets(p) /\ undone' = FALSE
          /\ outdated' = [q \in Callers |-> q # p /\ (outdated[q] \/ Id!Loaded(q))] /\ UNCHANGED admins
      BY <1>4 DEF Id!SetDefault, Id!SetIdentity
    <2>2. Id!TypeOK'
      BY <1>0, <2>1 DEF Id!TypeOK, Id!Forgets, Id!Loaded
    <2>3. \A q \in Callers : ~(Id!Loaded(q)' /\ ~outdated'[q])
      BY <1>0, <2>1 DEF Id!Forgets, Id!Loaded
    <2> QED  BY <2>1, <2>2, <2>3 DEF IdentityInv, Id!DefaultStands
  <1>5. ASSUME NEW p \in Callers, NEW n \in Labels, Id!DeleteIdentity(p, n) PROVE IdentityInv'
    <2>1. /\ Id!Loaded(p) /\ n \in labels /\ n # me[p] /\ labels' = labels \ {n}
          /\ admins' = [admins EXCEPT ![n] = {}] /\ undone' = (undone \/ (outdated[p] /\ n = default))
          /\ Id!Writes(p) /\ UNCHANGED <<default, me, mine>>
      BY <1>5 DEF Id!DeleteIdentity
    <2>2. Id!TypeOK'
      BY <1>0, <2>1 DEF Id!TypeOK, Id!Writes, Id!Loaded
    <2>3. ~outdated[p] => /\ me[p] \in labels /\ mine[p] = admins[me[p]]
                          /\ default \in {me[p], Nobody}
      BY <2>1 DEF IdentityInv, Id!DefaultStands
    <2>4. ~outdated[p] => me[p] \in labels' /\ mine[p] = admins'[me[p]] /\ n # default
      BY <1>0, <2>1, <2>3
    <2>5. undone' \/ default \in labels' \cup {Nobody}
      BY <2>1, <2>4 DEF IdentityInv, Id!DefaultStands
    <2> QED  BY <1>2, <2>1, <2>2, <2>3, <2>4, <2>5
  <1>6. ASSUME NEW p \in Callers, NEW a \in Admins, Id!ChangeAdmins(p, a) PROVE IdentityInv'
    <2>1. PICK A \in SUBSET Admins : mine' = [mine EXCEPT ![p] = A] /\ admins' = [admins EXCEPT ![me[p]] = A]
      BY <1>0, <1>6 DEF Id!ChangeAdmins
    <2>2. /\ Id!Loaded(p) /\ labels' = labels \cup {me[p]} /\ Id!Writes(p) /\ UNCHANGED <<default, me, undone>>
      BY <1>6 DEF Id!ChangeAdmins
    <2>3. me[p] \in Labels
      BY <1>0, <2>2 DEF Id!Loaded
    <2>4. Id!TypeOK'
      BY <1>0, <2>1, <2>2, <2>3 DEF Id!TypeOK, Id!Writes, Id!Loaded
    <2>5. me[p] \in labels' /\ mine'[p] = admins'[me[p]] /\ \A q \in Callers \ {p} : mine'[q] = mine[q]
      BY <1>0, <2>1, <2>2, <2>3
    <2>6. (~outdated[p] => default \in {me[p], Nobody}) /\ (undone \/ default \in labels \cup {Nobody})
      BY <2>2 DEF IdentityInv, Id!DefaultStands
    <2> QED  BY <1>2, <2>2, <2>4, <2>5, <2>6
  <1>7. ASSUME NEW p \in Callers, Id!Restart(p) PROVE IdentityInv'
    <2>1. Id!Forgets(p) /\ outdated' = [outdated EXCEPT ![p] = FALSE]
          /\ UNCHANGED <<labels, admins, default, undone>>
      BY <1>7 DEF Id!Restart
    <2>2. Id!TypeOK'
      BY <1>0, <2>1 DEF Id!TypeOK, Id!Forgets
    <2>3. \A q \in Callers : Id!Loaded(q)' => Id!Loaded(q) /\ me'[q] = me[q] /\ mine'[q] = mine[q]
                                              /\ outdated'[q] = outdated[q]
      BY <1>0, <2>1 DEF Id!Forgets, Id!Loaded
    <2> QED  BY <2>1, <2>2, <2>3 DEF IdentityInv, Id!DefaultStands
  <1>8. CASE UNCHANGED Id!vars
    BY <1>8 DEF Id!vars, IdentityInv, Id!TypeOK, Id!DefaultStands, Id!Loaded
  <1> QED  BY <1>1, <1>3, <1>4, <1>5, <1>6, <1>7, <1>8 DEF Id!Next

\* The behaviours of Server are behaviours of Identity.
LEMMA IdentitySteps == Spec => Id!Spec
  <1>1. Init => Id!Init
    BY DEF Init
  <1>2. [Next]_vars => [Id!Next]_(Id!vars)
    BY DEF Next, vars, PackagesRuns, BackupRuns, CrontabRuns, NoticesRuns, MailsRuns,
       IdentityRuns, WalletsRuns, LoginRuns, CertificatesRuns, PollsRuns, identityVars, Id!vars
  <1> QED  BY <1>1, <1>2, PTL DEF Spec, Id!Spec

\* The identity keeps what is promised, in every state.
LEMMA IdentityKept == Spec => []Id!DefaultStands
  <1>1. IdentityInv => Id!DefaultStands
    BY DEF IdentityInv
  <1> QED  BY <1>1, IdentityInit, IdentityNext, IdentitySteps, PTL DEF Id!Spec

-----------------------------------------------------------------------------
(* Login.                                                                  *)

Places == Pages \cup {Home}
Addresses == [page : Places, quoted : Nat]
Stages == {"off", "login", "provider", "landed", "shown", "error"}
TabStates == [at : Stages, address : Addresses, state : Nat, asked : Places, muddled : BOOLEAN]

\* Where the page that a tab asked for is on its way: in the tab, then, quoted once, in
\* the session, and at the end in the tab again.
OnItsWay(r, n) ==
    ~r.muddled =>
      /\ r.at = "login" => r.address = Lg!Quote(Lg!Plain(r.asked))
      /\ r.at = "provider" => n = Lg!Quote(Lg!Plain(r.asked))
      /\ r.at = "landed" => r.address = Lg!Plain(r.asked)

LoginInv ==
    /\ next \in Addresses /\ states \in Nat
    /\ tabs \in [Callers -> TabStates]
    /\ \A t \in Callers : OnItsWay(tabs[t], next)

\* Quoting and unquoting an address: one undoes the other.
LEMMA Quoting ==
  /\ \A p \in Places : /\ Lg!Plain(p) \in Addresses /\ Lg!Quote(Lg!Plain(p)) \in Addresses
                       /\ Lg!Unquote(Lg!Quote(Lg!Plain(p))) = Lg!Plain(p)
  /\ \A u \in Addresses : Lg!Quote(u) \in Addresses /\ Lg!Unquote(u) \in Addresses
  /\ \A u \in Addresses : u.page \in Places /\ (~(u.quoted > 0) => u = Lg!Plain(u.page))
  <1>1. \A u \in Addresses : /\ Lg!Quote(u) = [page |-> u.page, quoted |-> u.quoted + 1]
                             /\ u.page \in Places /\ u.quoted \in Nat
                             /\ u = [page |-> u.page, quoted |-> u.quoted]
    BY DEF Addresses, Lg!Quote
  <1>2. \A u \in Addresses :
          Lg!Unquote(u) = [page |-> u.page, quoted |-> IF u.quoted = 0 THEN 0 ELSE u.quoted - 1]
    BY DEF Addresses, Lg!Unquote
  <1>3. \A u \in Addresses : u.quoted + 1 \in Nat /\ (u.quoted # 0 => u.quoted - 1 \in Nat)
                             /\ u.quoted + 1 # 0 /\ (u.quoted + 1) - 1 = u.quoted
                             /\ (~(u.quoted > 0) => u.quoted = 0)
    BY <1>1
  <1>4. \A u \in Addresses : Lg!Quote(u) \in Addresses /\ Lg!Unquote(u) \in Addresses
    BY <1>1, <1>2, <1>3 DEF Addresses
  <1>5. \A p \in Places : Lg!Plain(p) = [page |-> p, quoted |-> 0] /\ Lg!Plain(p) \in Addresses
    BY DEF Lg!Plain, Addresses
  <1>6. \A u \in Addresses : ~(u.quoted > 0) => u = Lg!Plain(u.page)
    BY <1>1, <1>3 DEF Lg!Plain
  <1>7. ASSUME NEW p \in Places PROVE Lg!Unquote(Lg!Quote(Lg!Plain(p))) = Lg!Plain(p)
    <2>1. Lg!Quote(Lg!Plain(p)) = [page |-> p, quoted |-> 1]
      BY <1>1, <1>5
    <2>2. Lg!Quote(Lg!Plain(p)) \in Addresses
      BY <1>4, <1>5
    <2>3. Lg!Unquote(Lg!Quote(Lg!Plain(p))) = [page |-> p, quoted |-> 0]
      BY <1>2, <2>1, <2>2
    <2> QED  BY <1>5, <2>3
  <1> QED  BY <1>1, <1>4, <1>5, <1>6, <1>7

\* A blank tab is one, and what there is of places.
LEMMA BlankTab == Lg!Blank \in TabStates /\ Home \in Places /\ Pages \subseteq Places
  <1>1. Home \in Places /\ Pages \subseteq Places
    BY DEF Places
  <1>2. Lg!Plain(Home) \in Addresses
    BY <1>1, Quoting
  <1> QED  BY <1>1, <1>2 DEF Lg!Blank, TabStates, Stages

\* The invariant of the login holds at first.
LEMMA LoginInit == Lg!Init => LoginInv
  <1> SUFFICES ASSUME Lg!Init PROVE LoginInv
    OBVIOUS
  <1>1. next \in Addresses /\ states \in Nat
    BY Quoting, BlankTab DEF Lg!Init
  <1>2. tabs \in [Callers -> TabStates] /\ \A t \in Callers : tabs[t].at = "off"
    BY BlankTab DEF Lg!Init, Lg!Blank
  <1> QED  BY <1>1, <1>2 DEF LoginInv, OnItsWay

\* A tab shows something: the others are muddled, or their page is still in the session.
LEMMA TabShows ==
  ASSUME LoginInv, NEW t \in Callers, NEW r \in TabStates, Lg!Shows(t, r), OnItsWay(r, next'),
         next' \in Addresses, states' \in Nat
  PROVE  LoginInv'
  <1>1. tabs \in [Callers -> TabStates] /\ \A u \in Callers : tabs[u] \in TabStates
    BY DEF LoginInv
  <1> DEFINE s(u) == [tabs[u] EXCEPT !.muddled = @ \/ (tabs[u].at = "provider" /\ next' # next)]
  <1>2. \A u \in Callers : tabs'[u] = IF u = t THEN r ELSE s(u)
    BY DEF Lg!Shows
  <1>3. ASSUME NEW u \in Callers
        PROVE  /\ s(u) \in TabStates
               /\ s(u).at = tabs[u].at /\ s(u).address = tabs[u].address /\ s(u).asked = tabs[u].asked
               /\ (~s(u).muddled => ~tabs[u].muddled /\ (tabs[u].at # "provider" \/ next' = next))
    BY <1>1 DEF TabStates
  <1>4. tabs' \in [Callers -> TabStates]
    BY <1>2, <1>3 DEF Lg!Shows
  <1> HIDE DEF s
  <1>5. \A u \in Callers : OnItsWay(s(u), next')
    BY <1>3 DEF LoginInv, OnItsWay
  <1> QED  BY <1>2, <1>4, <1>5 DEF LoginInv

\* A login page: it holds the address that it was opened for, quoted.
LEMMA PageShows ==
  ASSUME LoginInv, NEW t \in Callers, NEW u \in Addresses, NEW p \in Places, NEW b \in BOOLEAN,
         Lg!LoginPage(t, u, p, b), ~b => u = Lg!Plain(p), next' \in Addresses, states' \in Nat
  PROVE  LoginInv'
  <1> DEFINE r == [Lg!Blank EXCEPT !.at = "login", !.address = Lg!Quote(u), !.asked = p,
                                   !.muddled = b]
  <1>1. r \in TabStates /\ r.at = "login" /\ r.address = Lg!Quote(u) /\ r.asked = p /\ r.muddled = b
    <2>1. Lg!Quote(u) \in Addresses
      BY Quoting
    <2>2. "login" \in Stages /\ Lg!Blank \in TabStates
      BY BlankTab DEF Stages
    <2> QED  BY <2>1, <2>2 DEF TabStates
  <1>2. Lg!Shows(t, r)
    BY DEF Lg!LoginPage
  <1> HIDE DEF r
  <1>3. OnItsWay(r, next')
    BY <1>1 DEF OnItsWay
  <1> QED  BY <1>1, <1>2, <1>3, TabShows

\* Every step of the login keeps its invariant.
LEMMA LoginNext ==
  ASSUME LoginInv, [Lg!Next]_(Lg!vars)
  PROVE  LoginInv'
  <1>0. /\ next \in Addresses /\ states \in Nat /\ tabs \in [Callers -> TabStates]
        /\ \A t \in Callers : tabs[t] \in TabStates /\ OnItsWay(tabs[t], next)
    BY DEF LoginInv
  <1>1. ASSUME NEW t \in Callers, NEW p \in Pages, Lg!Visit(t, p) PROVE LoginInv'
    <2>1. p \in Places /\ Lg!Plain(p) \in Addresses /\ UNCHANGED states
      BY <1>1, BlankTab, Quoting DEF Lg!Visit
    <2>2. CASE user # Nobody
      <3> DEFINE r == [Lg!Blank EXCEPT !.at = "shown", !.address = Lg!Plain(p), !.asked = p]
      <3>1. r \in TabStates /\ r.at = "shown"
        <4>1. "shown" \in Stages /\ Lg!Blank \in TabStates
          BY BlankTab DEF Stages
        <4> QED  BY <2>1, <4>1 DEF TabStates
      <3>2. Lg!Shows(t, r) /\ UNCHANGED next
        BY <1>1, <2>2 DEF Lg!Visit
      <3> HIDE DEF r
      <3> QED  BY <1>0, <2>1, <3>1, <3>2, TabShows DEF OnItsWay
    <2>3. CASE user = Nobody
      <3>1. next' = Lg!Plain(p) /\ Lg!LoginPage(t, next', p, FALSE)
        BY <1>1, <2>3 DEF Lg!Visit
      <3>2. Lg!LoginPage(t, Lg!Plain(p), p, FALSE)
        BY <3>1
      <3> QED  BY <1>0, <2>1, <3>1, <3>2, PageShows
    <2> QED  BY <2>2, <2>3
  <1>2. ASSUME NEW t \in Callers, Lg!OpenLogin(t) PROVE LoginInv'
    <2>1. Lg!LoginPage(t, next, next.page, next.quoted > 0) /\ UNCHANGED <<next, states>>
      BY <1>2 DEF Lg!OpenLogin
    <2>2. next.page \in Places /\ (~(next.quoted > 0) => next = Lg!Plain(next.page))
          /\ (next.quoted > 0) \in BOOLEAN
      BY <1>0, Quoting
    <2> QED  BY <1>0, <2>1, <2>2, PageShows
  <1>3. ASSUME NEW t \in Callers, NEW p \in Pages, Lg!OpenLoginFor(t, p) PROVE LoginInv'
    <2>1. Lg!LoginPage(t, Lg!Plain(p), p, FALSE) /\ UNCHANGED <<next, states>>
      BY <1>3 DEF Lg!OpenLoginFor
    <2>2. p \in Places /\ Lg!Plain(p) \in Addresses
      BY BlankTab, Quoting
    <2> QED  BY <1>0, <2>1, <2>2, PageShows
  <1>4. ASSUME NEW t \in Callers, Lg!Click(t) PROVE LoginInv'
    <2> DEFINE r == [tabs[t] EXCEPT !.at = "provider", !.state = states + 1]
    <2>1. /\ tabs[t].at = "login" /\ states' = states + 1
          /\ next' = Lg!Quote(Lg!Unquote(tabs[t].address)) /\ Lg!Shows(t, r)
      BY <1>4 DEF Lg!Click
    <2>2. tabs[t].address \in Addresses /\ tabs[t].asked \in Places
      BY <1>0 DEF TabStates
    <2>3. next' \in Addresses /\ states' \in Nat
      BY <1>0, <2>1, <2>2, Quoting
    <2>4. r \in TabStates /\ r.at = "provider" /\ r.asked = tabs[t].asked
          /\ r.muddled = tabs[t].muddled
      <3>1. "provider" \in Stages /\ tabs[t] \in TabStates
        BY <1>0 DEF Stages
      <3>2. states + 1 \in Nat
        BY <1>0
      <3> QED  BY <2>2, <3>1, <3>2 DEF TabStates
    <2>5. ~tabs[t].muddled => next' = Lg!Quote(Lg!Plain(tabs[t].asked))
      BY <1>0, <2>1, <2>2, Quoting DEF OnItsWay
    <2> HIDE DEF r
    <2>6. OnItsWay(r, next')
      BY <2>4, <2>5 DEF OnItsWay
    <2> QED  BY <2>1, <2>3, <2>4, <2>6, TabShows
  <1>5. ASSUME NEW t \in Callers, NEW n \in Users, Lg!Callback(t, n) PROVE LoginInv'
    <2> DEFINE r == [tabs[t] EXCEPT !.at = "landed", !.address = Lg!Unquote(next)]
    <2>1. tabs[t].at = "provider" /\ UNCHANGED <<next, states>> /\ Lg!Shows(t, r)
      BY <1>5 DEF Lg!Callback
    <2>2. Lg!Unquote(next) \in Addresses /\ tabs[t].asked \in Places
      BY <1>0, Quoting DEF TabStates
    <2>3. r \in TabStates /\ r.at = "landed" /\ r.asked = tabs[t].asked
          /\ r.muddled = tabs[t].muddled /\ r.address = Lg!Unquote(next)
      <3>1. "landed" \in Stages /\ tabs[t] \in TabStates
        BY <1>0 DEF Stages
      <3> QED  BY <2>2, <3>1 DEF TabStates
    <2>4. ~tabs[t].muddled => Lg!Unquote(next) = Lg!Plain(tabs[t].asked)
      BY <1>0, <2>1, <2>2, Quoting DEF OnItsWay
    <2> HIDE DEF r
    <2>5. OnItsWay(r, next')
      BY <2>3, <2>4 DEF OnItsWay
    <2> QED  BY <1>0, <2>1, <2>3, <2>5, TabShows
  \* A page that is not part of a login, or an error.
  <1>6. ASSUME NEW t \in Callers, NEW r \in TabStates, r.at \notin {"login", "provider", "landed"},
               Lg!Shows(t, r), UNCHANGED <<next, states>>
        PROVE  LoginInv'
    <2>1. OnItsWay(r, next')
      BY <1>6 DEF OnItsWay
    <2> QED  BY <1>0, <1>6, <2>1, TabShows
  <1>8. ASSUME NEW t \in Callers, Lg!CallbackFails(t) \/ Lg!AutoLogin(t) PROVE LoginInv'
    <2>1. PICK x : x \in {"error", "shown"} /\ Lg!Shows(t, [Lg!Blank EXCEPT !.at = x])
      BY <1>8 DEF Lg!CallbackFails, Lg!AutoLogin
    <2>2. UNCHANGED <<next, states>>
      BY <1>8 DEF Lg!CallbackFails, Lg!AutoLogin
    <2>3. x \in Stages /\ x \notin {"login", "provider", "landed"}
      BY <2>1 DEF Stages
    <2> DEFINE r == [Lg!Blank EXCEPT !.at = x]
    <2>4. r \in TabStates /\ r.at = x
      BY <2>3, BlankTab DEF TabStates
    <2>5. Lg!Shows(t, r)
      BY <2>1
    <2> HIDE DEF r
    <2> QED  BY <1>6, <2>2, <2>3, <2>4, <2>5
  <1>9. ASSUME NEW t \in Callers, NEW p \in Pages, Lg!VisitAdmin(t, p) PROVE LoginInv'
    <2> DEFINE x == IF Lg!IsAdmin THEN "shown" ELSE "error"
    <2>1. UNCHANGED <<next, states>> /\ Lg!Plain(p) \in Addresses /\ p \in Places
      BY <1>9, BlankTab, Quoting DEF Lg!VisitAdmin
    <2>2. Lg!Shows(t, [Lg!Blank EXCEPT !.at = x, !.address = Lg!Plain(p), !.asked = p])
      BY <1>9 DEF Lg!VisitAdmin
    <2>3. x \in Stages /\ x \notin {"login", "provider", "landed"}
      <3>1. CASE Lg!IsAdmin
        BY <3>1 DEF Stages
      <3>2. CASE ~Lg!IsAdmin
        BY <3>2 DEF Stages
      <3> QED  BY <3>1, <3>2
    <2> HIDE DEF x
    <2> DEFINE r == [Lg!Blank EXCEPT !.at = x, !.address = Lg!Plain(p), !.asked = p]
    <2>4. r \in TabStates /\ r.at = x
      <3>1. Lg!Blank \in TabStates
        BY BlankTab
      <3> QED  BY <2>1, <2>3, <3>1 DEF TabStates
    <2>5. Lg!Shows(t, r)
      BY <2>2
    <2> HIDE DEF r
    <2> QED  BY <1>6, <2>1, <2>3, <2>4, <2>5
  <1>10. ASSUME NEW t \in Callers, Lg!Logout(t) PROVE LoginInv'
    <2>1. next' = Lg!Plain(Home) /\ UNCHANGED states /\ Lg!LoginPage(t, Lg!Plain(Home), Home, FALSE)
      BY <1>10 DEF Lg!Logout
    <2> QED  BY <1>0, <2>1, BlankTab, Quoting, PageShows
  <1>11. CASE Lg!ChangeOwners
    BY <1>11 DEF Lg!ChangeOwners, LoginInv
  <1>12. CASE UNCHANGED Lg!vars
    BY <1>12 DEF Lg!vars, LoginInv
  <1> QED  BY <1>1, <1>2, <1>3, <1>4, <1>5, <1>8, <1>9, <1>10, <1>11, <1>12 DEF Lg!Next

\* The behaviours of Server are behaviours of Login.
LEMMA LoginSteps == Spec => Lg!Spec
  <1>1. Init => Lg!Init
    BY DEF Init
  <1>2. [Next]_vars => [Lg!Next]_(Lg!vars)
    BY DEF Next, vars, PackagesRuns, BackupRuns, CrontabRuns, NoticesRuns, MailsRuns,
       IdentityRuns, WalletsRuns, LoginRuns, CertificatesRuns, PollsRuns, loginVars, Lg!vars
  <1> QED  BY <1>1, <1>2, PTL DEF Spec, Lg!Spec

\* The login keeps what is promised, in every state.
LEMMA LoginKept == Spec => []Lg!LandsWhereAsked
  <1>1. LoginInv => Lg!LandsWhereAsked
    BY DEF LoginInv, Lg!LandsWhereAsked, OnItsWay
  <1> QED  BY <1>1, LoginInit, LoginNext, LoginSteps, PTL DEF Lg!Spec

-----------------------------------------------------------------------------
(* Certificates.                                                           *)

Fresh(w) == w \in managed => age[w] < Due

\* In a job in which nothing has failed, and which has found no managed certificate,
\* each website it has looked at is being obtained, or has been; one at a time.
CertificatesInv ==
    /\ managed \subseteq Websites /\ age \in [Websites -> Nat] /\ todo \subseteq Websites
    /\ \A w, v \in attempt.website : w = v
    /\ attempt.website \subseteq Websites
    /\ running /\ smooth /\ ~found =>
         \A w \in Websites \ todo : w \in attempt.website \/ Fresh(w)
    /\ Ce!RenewedInTime

\* The invariant of the certificates holds at first.
LEMMA CertificatesInit == Ce!Init => CertificatesInv
  BY DEF Ce!Init, CertificatesInv, Ce!Nothing, Ce!RenewedInTime

\* Every step of the certificates keeps its invariant.
LEMMA CertificatesNext ==
  ASSUME CertificatesInv, [Ce!Next]_(Ce!vars)
  PROVE  CertificatesInv'
  <1>0. /\ managed \subseteq Websites /\ age \in [Websites -> Nat] /\ todo \subseteq Websites
        /\ attempt.website \subseteq Websites /\ \A w, v \in attempt.website : w = v
        /\ Due \in Nat /\ 0 < Due
    BY ServerAssumption DEF ServerAssumption, Ce!CertificatesAssumption, CertificatesInv
  <1>1. ASSUME NEW w \in Websites, Ce!Obtain(w) PROVE CertificatesInv'
    <2>1. /\ w \in attempt.website /\ managed' = managed \cup {w} /\ attempt' = Ce!Nothing
          /\ age' = IF w \in managed /\ age[w] < Due THEN age ELSE [age EXCEPT ![w] = 0]
          /\ UNCHANGED <<todo, running, found, smooth, renewed>>
      BY <1>1 DEF Ce!Obtain
    <2>2. age' \in [Websites -> Nat]
      BY <1>0, <2>1
    <2>3. age'[w] < Due /\ \A v \in Websites : v # w => age'[v] = age[v] /\ (v \in managed' <=> v \in managed)
      BY <1>0, <2>1
    <2>4. attempt'.website = {} /\ \A v \in attempt.website : v = w
      BY <1>0, <2>1 DEF Ce!Nothing
    <2>5. \A v \in Websites : v \in attempt.website \/ Fresh(v) => Fresh(v)'
      BY <2>3, <2>4 DEF Fresh
    <2>6. Ce!RenewedInTime'
      BY <1>0, <2>1, <2>3 DEF CertificatesInv, Ce!RenewedInTime
    <2> QED  BY <1>0, <2>1, <2>2, <2>4, <2>5, <2>6 DEF CertificatesInv
  <1>2. ASSUME NEW w \in Websites, NEW own \in BOOLEAN, Ce!Configure(w, own) PROVE CertificatesInv'
    <2>1. /\ attempt.website = {} /\ UNCHANGED <<managed, age, todo, running, found, smooth, renewed>>
          /\ attempt' = attempt \/ attempt' = [website |-> {w}, tries |-> Ce!Retries]
      BY <1>2 DEF Ce!Configure, Ce!Free, Ce!Nothing
    <2>2. attempt'.website \subseteq {w}
      BY <2>1
    <2>3. UNCHANGED Ce!RenewedInTime /\ \A v \in Websites : Fresh(v)' <=> Fresh(v)
      BY <2>1 DEF Ce!RenewedInTime, Fresh
    <2> QED  BY <1>0, <2>1, <2>2, <2>3 DEF CertificatesInv
  <1>3. CASE Ce!ObtainFails
    <2>1. /\ smooth' = FALSE /\ UNCHANGED <<managed, age, todo, running, found, renewed>>
          /\ attempt'.website \subseteq attempt.website
      <3>1. CASE attempt.tries = 1
        BY <1>3, <3>1 DEF Ce!ObtainFails, Ce!Nothing
      <3>2. CASE attempt.tries # 1
        BY <1>3, <3>2 DEF Ce!ObtainFails
      <3> QED  BY <3>1, <3>2
    <2> QED  BY <1>0, <2>1 DEF CertificatesInv, Ce!RenewedInTime
  <1>4. CASE Ce!StartJob
    BY <1>0, <1>4 DEF Ce!StartJob, CertificatesInv, Ce!RenewedInTime
  <1>5. ASSUME NEW w \in Websites, NEW checked \in BOOLEAN, Ce!Look(w, checked) PROVE CertificatesInv'
    <2>1. /\ running /\ attempt.website = {} /\ w \in todo /\ todo' = todo \ {w}
          /\ smooth' = (smooth /\ checked) /\ UNCHANGED <<managed, age, running, renewed>>
      BY <1>5 DEF Ce!Look, Ce!Free, Ce!Nothing
    <2>2. UNCHANGED Ce!RenewedInTime /\ \A v \in Websites : Fresh(v)' <=> Fresh(v)
      BY <2>1 DEF Ce!RenewedInTime, Fresh
    <2>3. CASE w \in managed /\ checked
      <3>1. found' = TRUE /\ UNCHANGED attempt
        BY <1>5, <2>3 DEF Ce!Look
      <3> QED  BY <1>0, <2>1, <2>2, <3>1 DEF CertificatesInv
    <2>4. CASE ~(w \in managed /\ checked)
      <3>1. attempt'.website = {w} /\ UNCHANGED found
        BY <1>5, <2>4 DEF Ce!Look
      <3> QED  BY <1>0, <2>1, <2>2, <3>1 DEF CertificatesInv
    <2> QED  BY <2>3, <2>4
  <1>6. CASE Ce!JobFails
    BY <1>0, <1>6 DEF Ce!JobFails, CertificatesInv, Ce!RenewedInTime
  <1>7. ASSUME NEW ok \in BOOLEAN, Ce!EndJob(ok) PROVE CertificatesInv'
    <2>1. /\ running /\ attempt.website = {} /\ todo = {} /\ running' = FALSE
          /\ renewed' = (ok /\ smooth) /\ UNCHANGED <<managed, todo, found, attempt, smooth>>
      BY <1>7 DEF Ce!EndJob, Ce!Free, Ce!Nothing
    <2>2. age' \in [Websites -> Nat]
      BY <1>0, <1>7 DEF Ce!EndJob
    <2>3. Ce!RenewedInTime'
      <3> SUFFICES ASSUME ok, smooth, NEW w \in managed PROVE age'[w] < Due
        BY <2>1 DEF Ce!RenewedInTime
      <3>1. w \in Websites /\ age[w] \in Nat
        BY <1>0
      <3>2. age'[w] = IF found /\ age[w] >= Due THEN 0 ELSE age[w]
        BY <1>7, <3>1 DEF Ce!EndJob
      <3>3. CASE found
        BY <1>0, <3>1, <3>2, <3>3
      <3>4. CASE ~found
        <4>1. age[w] < Due
          BY <2>1, <3>1, <3>4 DEF CertificatesInv, Fresh
        <4> QED  BY <3>2, <3>4, <4>1
      <3> QED  BY <3>3, <3>4
    <2> QED  BY <1>0, <2>1, <2>2, <2>3 DEF CertificatesInv
  <1>8. CASE Ce!NextDay
    <2>1. /\ ~running /\ renewed' = FALSE /\ UNCHANGED <<managed, todo, running, found, attempt, smooth>>
      BY <1>8 DEF Ce!NextDay
    <2>2. age' \in [Websites -> Nat]
      BY <1>0, <1>8 DEF Ce!NextDay
    <2> QED  BY <1>0, <2>1, <2>2 DEF CertificatesInv, Ce!RenewedInTime
  <1>9. CASE UNCHANGED Ce!vars
    BY <1>9 DEF Ce!vars, CertificatesInv, Ce!RenewedInTime, Fresh
  <1> QED  BY <1>1, <1>2, <1>3, <1>4, <1>5, <1>6, <1>7, <1>8, <1>9 DEF Ce!Next

\* The behaviours of Server are behaviours of Certificates.
LEMMA CertificatesSteps == Spec => Ce!Spec
  <1>1. Init => Ce!Init
    BY DEF Init
  <1>2. [Next]_vars => [Ce!Next]_(Ce!vars)
    BY DEF Next, vars, PackagesRuns, BackupRuns, CrontabRuns, NoticesRuns, MailsRuns,
       IdentityRuns, WalletsRuns, LoginRuns, CertificatesRuns, PollsRuns, certificatesVars, Ce!vars
  <1> QED  BY <1>1, <1>2, PTL DEF Spec, Ce!Spec

\* The certificates keep what is promised, in every state.
LEMMA CertificatesKept == Spec => []Ce!RenewedInTime
  <1>1. CertificatesInv => Ce!RenewedInTime
    BY DEF CertificatesInv
  <1> QED  BY <1>1, CertificatesInit, CertificatesNext, CertificatesSteps, PTL DEF Ce!Spec

-----------------------------------------------------------------------------
(* Backup.                                                                 *)

\* The number of members is the same in Backup.
LEMMA Counted == \A S : Bk!Cardinality(S) = Cardinality(S)
  BY DEF Bk!Cardinality, Cardinality

\* The newest of some snapshots is one of them.
LEMMA NewestOne ==
  ASSUME NEW S, S \subseteq Nat, IsFiniteSet(S)
  PROVE  /\ Bk!Newest(1, S) \subseteq S
         /\ IsFiniteSet(Bk!Newest(1, S)) /\ Cardinality(Bk!Newest(1, S)) <= 1
         /\ IsFiniteSet(S \ Bk!Newest(1, S))
         /\ S = {} \/ Cardinality(S \ Bk!Newest(1, S)) <= Cardinality(S) - 1
  <1> DEFINE above(s) == {t \in S : t > s}
             N == {s \in S : Cardinality(above(s)) < 1}
  <1>1. Bk!Newest(1, S) = N
    BY Counted DEF Bk!Newest
  <1>2. \A s \in S : IsFiniteSet(above(s)) /\ (Cardinality(above(s)) < 1 <=> above(s) = {})
    <2> SUFFICES ASSUME NEW s \in S
                 PROVE  IsFiniteSet(above(s)) /\ (Cardinality(above(s)) < 1 <=> above(s) = {})
      OBVIOUS
    <2>1. IsFiniteSet(above(s))
      BY FS_Subset
    <2> HIDE DEF above
    <2>2. Cardinality(above(s)) \in Nat /\ (Cardinality(above(s)) = 0 <=> above(s) = {})
      BY <2>1, FS_CardinalityType, FS_EmptySet
    <2> QED  BY <2>1, <2>2
  <1>3. \A s, t \in N : s = t
    <2> SUFFICES ASSUME NEW s \in N, NEW t \in N PROVE s = t
      OBVIOUS
    <2>1. s \in S /\ t \in S /\ above(s) = {} /\ above(t) = {}
      BY <1>2
    <2>2. ~(t > s) /\ ~(s > t) /\ s \in Nat /\ t \in Nat
      BY <2>1
    <2> QED  BY <2>2
  <1>4. S # {} => \E s \in S : above(s) = {}
    <2> SUFFICES ASSUME S # {} PROVE \E s \in S : above(s) = {}
      OBVIOUS
    <2> DEFINE T == {above(s) : s \in S}
    <2>1. T \subseteq FiniteSubsetsOf(S) /\ T # {}
      <3>1. \A s \in S : above(s) \in FiniteSubsetsOf(S)
        BY <1>2 DEF FiniteSubsetsOf
      <3> HIDE DEF above
      <3> QED  BY <3>1
    <2>2. PICK x \in T : \A y \in T : <<y, x>> \notin StrictSubsetOrdering(S)
      <3> HIDE DEF T
      <3> QED  BY <2>1, FS_StrictSubsetOrderingWellFounded, WFMin
    <2>3. PICK s \in S : x = above(s)
      OBVIOUS
    <2>4. ASSUME NEW t \in above(s) PROVE FALSE
      <3>1. t \in S /\ t \in Nat /\ s \in Nat /\ t > s
        OBVIOUS
      <3>2. above(t) \subseteq above(s)
        <4> SUFFICES ASSUME NEW u \in above(t) PROVE u \in above(s)
          BY DEF above
        <4>1. u \in S /\ u \in Nat /\ u > t
          OBVIOUS
        <4>2. u > s
          BY <3>1, <4>1
        <4> QED  BY <4>1, <4>2
      <3>3. t \notin above(t)
        BY <3>1
      <3>4. above(t) \in SUBSET S /\ above(s) \in SUBSET S /\ above(t) # above(s) /\ above(t) \in T
        BY <3>1, <3>3, <2>4
      <3> HIDE DEF T, above
      <3>5. <<above(t), above(s)>> \in StrictSubsetOrdering(S)
        BY <3>2, <3>4 DEF StrictSubsetOrdering
      <3> QED  BY <2>2, <2>3, <3>4, <3>5
    <2> QED  BY <2>4
  <1>5. N \subseteq S /\ IsFiniteSet(N) /\ IsFiniteSet(S \ N) /\ Cardinality(S \ N) <= Cardinality(S)
        /\ Cardinality(S) \in Nat /\ Cardinality(N) \in Nat
    <2>1. N \subseteq S
      OBVIOUS
    <2> HIDE DEF N
    <2> QED  BY <2>1, FS_Subset, FS_CardinalityType
  <1>6. Cardinality(N) <= 1
    <2>1. CASE N = {}
      <3> HIDE DEF N
      <3> QED  BY <2>1, FS_EmptySet
    <2>2. CASE N # {}
      <3>1. PICK s \in N : TRUE
        BY <2>2
      <3>2. N = {s}
        BY <1>3
      <3> HIDE DEF N
      <3> QED  BY <3>2, FS_Singleton
    <2> QED  BY <2>1, <2>2
  <1>7. S # {} => Cardinality(S \ N) <= Cardinality(S) - 1
    <2> SUFFICES ASSUME S # {} PROVE Cardinality(S \ N) <= Cardinality(S) - 1
      OBVIOUS
    <2>1. PICK s \in S : above(s) = {}
      BY <1>4
    <2>2. s \in N
      BY <1>2, <2>1
    <2> HIDE DEF N
    <2>3. S \ N \in SUBSET (S \ {s})
      BY <2>2
    <2>4. IsFiniteSet(S \ {s}) /\ Cardinality(S \ {s}) = Cardinality(S) - 1
      BY FS_RemoveElement
    <2> QED  BY <2>3, <2>4, FS_Subset
  <1> HIDE DEF N
  <1> QED  BY <1>1, <1>5, <1>6, <1>7

Doing == [at : {"idle", "join", "list", "forget"}, repo : Repos \cup {Nobody}, ids : SUBSET Nat]
\* The snapshots there may still be when a cleaning of everything ends.
Left(c) == snaps[backers[c].repo] \ backers[c].ids

\* A greenlet in the job's list that has succeeded made a snapshot while every caller
\* waited that waits now; a caller that cleans has no more than the last snapshot
\* and those made meanwhile to forget, and then no more than those to leave.
BackupInv ==
    /\ snaps \in [Repos -> SUBSET Nat] /\ \A r \in Repos : IsFiniteSet(snaps[r])
    /\ made \in Nat
    /\ green \in [Callers -> [Repos -> {"none", "running", "ok", "failed"}]]
    /\ backers \in [Callers -> Doing]
    /\ since \in [Callers -> [Repos -> Nat]]
    /\ \A c \in Callers : backers[c].at = "join" =>
         /\ current \in Callers
         /\ \A r \in Repos : green[current][r] = "ok" => since[c][r] > 0
    /\ \A c \in Callers : backers[c].at \in {"list", "forget"} => backers[c].repo \in Repos
    /\ \A c \in Callers : backers[c].at = "list" =>
         Cardinality(snaps[backers[c].repo]) <= since[c][backers[c].repo] + 1
    /\ \A c \in Callers : backers[c].at = "forget" =>
         Cardinality(Left(c)) <= since[c][backers[c].repo]

\* The invariant of the backups holds at first.
LEMMA BackupInit == Bk!Init => BackupInv
  <1> SUFFICES ASSUME Bk!Init PROVE BackupInv
    OBVIOUS
  <1>1. /\ snaps = [r \in Repos |-> {}] /\ made = 0
        /\ green = [c \in Callers |-> [r \in Repos |-> "none"]]
        /\ backers = [c \in Callers |-> Bk!Resting]
        /\ since = [c \in Callers |-> [r \in Repos |-> 0]]
    BY DEF Bk!Init
  <1>2. Bk!Resting \in Doing /\ Bk!Resting.at = "idle"
    BY DEF Bk!Resting, Doing
  <1>3. green \in [Callers -> [Repos -> {"none", "running", "ok", "failed"}]]
    BY <1>1
  <1>4. snaps \in [Repos -> SUBSET Nat] /\ (\A r \in Repos : IsFiniteSet(snaps[r])) /\ made \in Nat
    BY <1>1, FS_EmptySet
  <1>5. since \in [Callers -> [Repos -> Nat]]
    BY <1>1
  <1>6. backers \in [Callers -> Doing] /\ \A c \in Callers : backers[c].at = "idle"
    BY <1>1, <1>2
  <1> QED  BY <1>3, <1>4, <1>5, <1>6 DEF BackupInv

\* Snapshots go, and the callers stay or rest: there is not more left than before.
LEMMA BackupsGo ==
  ASSUME BackupInv, snaps' \in [Repos -> SUBSET Nat],
         \A r \in Repos : snaps'[r] \subseteq snaps[r], UNCHANGED <<made, green, current>>,
         backers' \in [Callers -> Doing], since' \in [Callers -> [Repos -> Nat]],
         \A c \in Callers : \/ backers'[c] = backers[c] /\ since'[c] = since[c]
                            \/ backers'[c].at = "idle"
  PROVE  BackupInv'
  <1>1. \A r \in Repos : IsFiniteSet(snaps[r]) /\ snaps'[r] \in SUBSET snaps[r]
    BY DEF BackupInv
  <1>2. \A r \in Repos : IsFiniteSet(snaps'[r])
    BY <1>1, FS_Subset
  <1>3. ASSUME NEW c \in Callers, backers'[c].at # "idle"
        PROVE  /\ backers'[c] = backers[c] /\ since'[c] = since[c]
               /\ backers[c].at \in {"list", "forget"} => backers[c].repo \in Repos
    BY <1>3 DEF BackupInv
  <1>4. ASSUME NEW c \in Callers, backers'[c].at = "join"
        PROVE  current' \in Callers /\ \A r \in Repos : green'[current'][r] = "ok" => since'[c][r] > 0
    BY <1>3, <1>4 DEF BackupInv
  <1>5. ASSUME NEW c \in Callers, backers'[c].at = "list"
        PROVE  Cardinality(snaps'[backers'[c].repo]) <= since'[c][backers'[c].repo] + 1
    <2> DEFINE r == backers[c].repo
    <2>1. r \in Repos /\ Cardinality(snaps[r]) <= since[c][r] + 1 /\ since[c][r] \in Nat
      BY <1>3, <1>5 DEF BackupInv
    <2> HIDE DEF r
    <2>2. /\ Cardinality(snaps'[r]) <= Cardinality(snaps[r]) /\ Cardinality(snaps'[r]) \in Nat
          /\ Cardinality(snaps[r]) \in Nat
      BY <1>1, <1>2, <2>1, FS_Subset, FS_CardinalityType
    <2>3. Cardinality(snaps'[r]) <= since[c][r] + 1
      BY <2>1, <2>2
    <2> QED  BY <1>3, <1>5, <2>3 DEF r
  <1>6. ASSUME NEW c \in Callers, backers'[c].at = "forget"
        PROVE  Cardinality(Left(c)') <= since'[c][backers'[c].repo]
    <2> DEFINE r == backers[c].repo
               ids == backers[c].ids
    <2>1. r \in Repos /\ Cardinality(snaps[r] \ ids) <= since[c][r] /\ since[c][r] \in Nat
      BY <1>3, <1>6 DEF BackupInv, Left
    <2> HIDE DEF r, ids
    <2>2. snaps'[r] \ ids \in SUBSET (snaps[r] \ ids) /\ IsFiniteSet(snaps[r] \ ids)
      <3>1. snaps[r] \ ids \in SUBSET snaps[r]
        OBVIOUS
      <3> QED  BY <1>1, <2>1, <3>1, FS_Subset
    <2>3. /\ Cardinality(snaps'[r] \ ids) <= Cardinality(snaps[r] \ ids)
          /\ Cardinality(snaps'[r] \ ids) \in Nat /\ Cardinality(snaps[r] \ ids) \in Nat
      BY <2>2, FS_Subset, FS_CardinalityType
    <2>4. Cardinality(snaps'[r] \ ids) <= since[c][r]
      BY <2>1, <2>3
    <2> QED  BY <1>3, <1>6, <2>4 DEF r, ids, Left
  <1> QED  BY <1>2, <1>3, <1>4, <1>5, <1>6 DEF BackupInv

\* Every step of the backups keeps its invariant.
LEMMA BackupNext ==
  ASSUME BackupInv, [Bk!Next]_(Bk!vars)
  PROVE  BackupInv'
  <1>0. /\ snaps \in [Repos -> SUBSET Nat] /\ made \in Nat /\ \A r \in Repos : IsFiniteSet(snaps[r])
        /\ green \in [Callers -> [Repos -> {"none", "running", "ok", "failed"}]]
        /\ backers \in [Callers -> Doing] /\ since \in [Callers -> [Repos -> Nat]]
        /\ \A c \in Callers : backers[c] \in Doing
    BY DEF BackupInv
  <1>1. CASE UNCHANGED <<snaps, made, green, current, backers, since>>
    BY <1>1 DEF BackupInv, Left
  <1>2. Bk!Resting \in Doing /\ Bk!Resting.at = "idle"
    BY DEF Bk!Resting, Doing
  <1>3. ASSUME NEW c \in Callers, Bk!Returns(c)
        PROVE  /\ backers' \in [Callers -> Doing] /\ since' \in [Callers -> [Repos -> Nat]]
               /\ backers'[c].at = "idle"
               /\ \A d \in Callers \ {c} : backers'[d] = backers[d] /\ since'[d] = since[d]
    <2>1. [r \in Repos |-> 0] \in [Repos -> Nat]
      OBVIOUS
    <2> QED  BY <1>0, <1>2, <1>3, <2>1 DEF Bk!Returns
  <1>4. ASSUME NEW c \in Callers, NEW block \in BOOLEAN, Bk!Execute(c, block) PROVE BackupInv'
    <2> DEFINE at == IF block THEN "join" ELSE "idle"
    <2>1. /\ backers[c].at = "idle" /\ current' = c /\ backers' = [backers EXCEPT ![c].at = at]
          /\ UNCHANGED <<snaps, made, since>>
          /\ green' = [d \in Callers |-> [r \in Repos |->
                         IF d = c THEN "running"
                         ELSE IF green[d][r] = "running" THEN "running" ELSE "none"]]
      BY <1>4 DEF Bk!Execute, Bk!Free
    <2>2. at \in {"idle", "join"}
      OBVIOUS
    <2> HIDE DEF at
    <2>3. green' \in [Callers -> [Repos -> {"none", "running", "ok", "failed"}]]
          /\ \A r \in Repos : green'[c][r] = "running"
      BY <2>1
    <2>4. backers' \in [Callers -> Doing]
      BY <1>0, <2>1, <2>2 DEF Doing
    <2>5. \A d \in Callers : backers'[d].at \notin {"idle", "join"} => backers'[d] = backers[d]
      BY <1>0, <2>1, <2>2 DEF Doing
    <2> QED  BY <1>0, <2>1, <2>3, <2>4, <2>5 DEF BackupInv, Left
  <1>5. ASSUME NEW c \in Callers, Bk!ExecuteReturns(c) PROVE BackupInv'
    <2>1. Bk!Returns(c) /\ UNCHANGED <<snaps, made, green, current>>
      BY <1>5 DEF Bk!ExecuteReturns
    <2> QED  BY <1>0, <1>3, <2>1, BackupsGo
  <1>6. ASSUME NEW c \in Callers, Bk!ListLast(c) PROVE BackupInv'
    <2> DEFINE r == backers[c].repo
               ids == Bk!Newest(1, snaps[r])
    <2>1. /\ backers[c].at = "list" /\ UNCHANGED <<snaps, made, green, current, since>>
          /\ backers' = [backers EXCEPT ![c].at = "forget", ![c].ids = ids]
      BY <1>6 DEF Bk!ListLast
    <2>2. r \in Repos /\ since[c][r] \in Nat /\ Cardinality(snaps[r]) <= since[c][r] + 1
          /\ snaps[r] \subseteq Nat /\ IsFiniteSet(snaps[r])
      BY <2>1 DEF BackupInv
    <2> HIDE DEF r
    <2>3. /\ ids \subseteq snaps[r] /\ IsFiniteSet(snaps[r] \ ids)
          /\ snaps[r] = {} \/ Cardinality(snaps[r] \ ids) <= Cardinality(snaps[r]) - 1
      BY <2>2, NewestOne
    <2> HIDE DEF ids
    <2>4. Cardinality(snaps[r] \ ids) <= since[c][r]
      <3>1. CASE snaps[r] = {}
        <4>1. snaps[r] \ ids = {}
          BY <3>1
        <4>2. Cardinality(snaps[r] \ ids) = 0
          BY <4>1, FS_EmptySet
        <4> QED  BY <2>2, <4>2
      <3>2. CASE snaps[r] # {}
        <4>1. Cardinality(snaps[r]) \in Nat /\ Cardinality(snaps[r] \ ids) \in Nat
          BY <2>2, <2>3, FS_CardinalityType
        <4> QED  BY <2>2, <2>3, <3>2, <4>1
      <3> QED  BY <3>1, <3>2
    <2>5. ids \in SUBSET Nat
      BY <2>2, <2>3
    <2>6. backers' \in [Callers -> Doing]
      <3>1. backers[c] \in Doing
        BY <1>0
      <3>2. [backers[c] EXCEPT !.at = "forget", !.ids = ids] \in Doing
        BY <2>5, <3>1 DEF Doing
      <3>3. backers' = [backers EXCEPT ![c] = [backers[c] EXCEPT !.at = "forget", !.ids = ids]]
        BY <1>0, <2>1
      <3> QED  BY <1>0, <3>2, <3>3
    <2>7. backers'[c].at = "forget" /\ backers'[c].ids = ids /\ backers'[c].repo = r
      <3>1. backers[c] \in Doing
        BY <1>0
      <3> QED  BY <1>0, <2>1, <3>1 DEF Doing, r
    <2>8. \A d \in Callers : d = c \/ backers'[d] = backers[d]
      BY <1>0, <2>1
    <2>9. ASSUME NEW d \in Callers, backers'[d].at = "join"
          PROVE  current' \in Callers /\ \A q \in Repos : green'[current'][q] = "ok" => since'[d][q] > 0
      BY <2>1, <2>7, <2>8, <2>9 DEF BackupInv
    <2>10. ASSUME NEW d \in Callers, backers'[d].at \in {"list", "forget"}
           PROVE  backers'[d].repo \in Repos
      BY <2>2, <2>7, <2>8, <2>10 DEF BackupInv
    <2>11. ASSUME NEW d \in Callers, backers'[d].at = "list"
           PROVE  Cardinality(snaps'[backers'[d].repo]) <= since'[d][backers'[d].repo] + 1
      BY <2>1, <2>7, <2>8, <2>11 DEF BackupInv
    <2>12. ASSUME NEW d \in Callers, backers'[d].at = "forget"
           PROVE  Cardinality(Left(d)') <= since'[d][backers'[d].repo]
      BY <2>1, <2>4, <2>7, <2>8, <2>12 DEF BackupInv, Left
    <2> QED  BY <1>0, <2>1, <2>6, <2>9, <2>10, <2>11, <2>12 DEF BackupInv
  <1>7. ASSUME NEW c \in Callers, Bk!ForgetLast(c) PROVE BackupInv'
    <2>1. /\ backers[c].at = "forget" /\ Bk!Returns(c) /\ UNCHANGED <<made, green, current>>
          /\ snaps' = [snaps EXCEPT ![backers[c].repo] = @ \ backers[c].ids]
      BY <1>7 DEF Bk!ForgetLast, Bk!Forget
    <2>2. snaps' \in [Repos -> SUBSET Nat] /\ \A r \in Repos : snaps'[r] \subseteq snaps[r]
      BY <1>0, <2>1
    <2> QED  BY <1>0, <1>3, <2>1, <2>2, BackupsGo
  <1>8. ASSUME NEW c \in Callers, NEW r \in Repos, Bk!BackupEnds(c, r) PROVE BackupInv'
    <2>1. /\ made' = made + 1 /\ UNCHANGED <<current, backers>>
          /\ snaps' = [snaps EXCEPT ![r] = @ \cup {made + 1}]
          /\ since' = [d \in Callers |-> IF backers[d].at = "idle" THEN since[d]
                                      ELSE [since[d] EXCEPT ![r] = @ + 1]]
          /\ green' = [green EXCEPT ![c][r] = IF c = current THEN "ok" ELSE "none"]
      BY <1>8 DEF Bk!BackupEnds, Bk!Ends, Bk!Free
    <2>2. made' \in Nat /\ made + 1 \in Nat
      BY <1>0, <2>1
    <2>3. green' \in [Callers -> [Repos -> {"none", "running", "ok", "failed"}]]
      BY <1>0, <2>1
    <2>4. snaps' \in [Repos -> SUBSET Nat]
      BY <1>0, <2>1, <2>2
    <2>5. since' \in [Callers -> [Repos -> Nat]]
      <3>1. \A d \in Callers : [since[d] EXCEPT ![r] = @ + 1] \in [Repos -> Nat]
        BY <1>0
      <3> QED  BY <1>0, <2>1, <3>1
    <2>6. \A d \in Callers : backers[d].at # "idle" =>
            since'[d][r] = since[d][r] + 1 /\ \A q \in Repos \ {r} : since'[d][q] = since[d][q]
      BY <1>0, <2>1
    <2>7. \A q \in Repos \ {r} : snaps'[q] = snaps[q]
      BY <1>0, <2>1
    <2>8. snaps'[r] = snaps[r] \cup {made + 1} /\ IsFiniteSet(snaps'[r])
      BY <1>0, <2>1, FS_AddElement
    <2>9. \A q \in Repos : IsFiniteSet(snaps'[q])
      BY <1>0, <2>7, <2>8
    <2>10. ASSUME NEW d \in Callers, backers[d].at = "join"
           PROVE  \A q \in Repos : green'[current][q] = "ok" => since'[d][q] > 0
      <3>1. current \in Callers /\ \A q \in Repos : green[current][q] = "ok" => since[d][q] > 0
        BY <2>10 DEF BackupInv
      <3>2. \A q \in Repos \ {r} : green'[current][q] = green[current][q]
        BY <1>0, <2>1, <3>1
      <3>3. since'[d][r] > 0
        <4>1. since[d][r] \in Nat
          BY <1>0
        <4> QED  BY <2>6, <2>10, <4>1
      <3>4. \A q \in Repos \ {r} : since'[d][q] = since[d][q]
        BY <2>6, <2>10
      <3> QED  BY <3>1, <3>2, <3>3, <3>4
    <2>11. ASSUME NEW d \in Callers, NEW q \in Repos, NEW ids, backers[d].at # "idle"
           PROVE  /\ IsFiniteSet(snaps[q] \ ids) /\ Cardinality(snaps[q] \ ids) \in Nat
                  /\ since[d][q] \in Nat /\ since'[d][q] \in Nat
                  /\ Cardinality(snaps'[q] \ ids) - since'[d][q]
                       <= Cardinality(snaps[q] \ ids) - since[d][q]
                  /\ Cardinality(snaps'[q] \ ids) \in Nat
      <3>1. snaps[q] \ ids \in SUBSET snaps[q] /\ snaps'[q] \ ids \in SUBSET snaps'[q]
        OBVIOUS
      <3>2. IsFiniteSet(snaps[q] \ ids) /\ Cardinality(snaps[q] \ ids) \in Nat
            /\ IsFiniteSet(snaps'[q] \ ids) /\ Cardinality(snaps'[q] \ ids) \in Nat
        BY <1>0, <2>9, <3>1, FS_Subset, FS_CardinalityType
      <3>3. since[d][q] \in Nat /\ since'[d][q] \in Nat
        BY <1>0, <2>5
      <3>4. CASE q # r
        <4>1. snaps'[q] = snaps[q] /\ since'[d][q] = since[d][q]
          BY <2>6, <2>7, <2>11, <3>4
        <4> QED  BY <3>2, <3>3, <4>1
      <3>5. CASE q = r
        <4>1. Cardinality(snaps'[r] \ ids) <= Cardinality(snaps[r] \ ids) + 1
          <5>1. IsFiniteSet((snaps[r] \ ids) \cup {made + 1})
                /\ Cardinality((snaps[r] \ ids) \cup {made + 1}) <= Cardinality(snaps[r] \ ids) + 1
            <6> DEFINE W == snaps[r] \ ids
            <6>1. IsFiniteSet(W) /\ Cardinality(W) \in Nat
              BY <3>2, <3>5
            <6> HIDE DEF W
            <6>2. IsFiniteSet(W \cup {made + 1}) /\ Cardinality(W \cup {made + 1}) <= Cardinality(W) + 1
              BY <6>1, FS_AddElement, SMTT(30)
            <6> QED  BY <6>2 DEF W
          <5>2. snaps'[r] \ ids \in SUBSET ((snaps[r] \ ids) \cup {made + 1})
            BY <2>8
          <5>3. Cardinality(snaps'[r] \ ids) <= Cardinality((snaps[r] \ ids) \cup {made + 1})
                /\ Cardinality((snaps[r] \ ids) \cup {made + 1}) \in Nat
            BY <5>1, <5>2, FS_Subset, FS_CardinalityType
          <5> QED  BY <5>1, <5>3, <3>2, <3>5
        <4>2. since'[d][r] = since[d][r] + 1
          BY <2>6, <2>11
        <4> QED  BY <3>2, <3>3, <3>5, <4>1, <4>2
      <3> QED  BY <3>4, <3>5
    <2>12. ASSUME NEW d \in Callers, backers[d].at = "list"
           PROVE  Cardinality(snaps'[backers[d].repo]) <= since'[d][backers[d].repo] + 1
      <3> DEFINE q == backers[d].repo
      <3>1. q \in Repos /\ Cardinality(snaps[q]) <= since[d][q] + 1
        BY <2>12 DEF BackupInv
      <3> HIDE DEF q
      <3>2. snaps[q] \ {} = snaps[q] /\ snaps'[q] \ {} = snaps'[q]
        OBVIOUS
      <3>3. /\ Cardinality(snaps[q]) \in Nat /\ since[d][q] \in Nat /\ since'[d][q] \in Nat
            /\ Cardinality(snaps'[q]) - since'[d][q] <= Cardinality(snaps[q]) - since[d][q]
            /\ Cardinality(snaps'[q]) \in Nat
        <4>1. backers[d].at # "idle"
          BY <2>12
        <4> HIDE DEF q
        <4> QED  BY <2>11, <3>1, <3>2, <4>1
      <3>4. Cardinality(snaps'[q]) <= since'[d][q] + 1
        BY <3>1, <3>3
      <3> QED  BY <3>4 DEF q
    <2>13. ASSUME NEW d \in Callers, backers[d].at = "forget"
           PROVE  Cardinality(Left(d)') <= since'[d][backers[d].repo]
      <3> DEFINE q == backers[d].repo
                 ids == backers[d].ids
      <3>1. q \in Repos /\ Cardinality(snaps[q] \ ids) <= since[d][q]
        BY <2>13 DEF BackupInv, Left
      <3> HIDE DEF q, ids
      <3>2. backers[d].at # "idle"
        BY <2>13
      <3>3. /\ Cardinality(snaps[q] \ ids) \in Nat /\ since[d][q] \in Nat /\ since'[d][q] \in Nat
            /\ Cardinality(snaps'[q] \ ids) - since'[d][q] <= Cardinality(snaps[q] \ ids) - since[d][q]
            /\ Cardinality(snaps'[q] \ ids) \in Nat
        BY <2>11, <3>1, <3>2
      <3>4. Cardinality(snaps'[q] \ ids) <= since'[d][q]
        BY <3>1, <3>3
      <3> QED  BY <2>1, <3>4 DEF Left, q, ids
    <2> QED  BY <2>1, <2>2, <2>3, <2>4, <2>5, <2>9, <2>10, <2>12, <2>13 DEF BackupInv
  <1>9. ASSUME NEW c \in Callers, NEW r \in Repos, Bk!BackupFails(c, r) PROVE BackupInv'
    <2>1. UNCHANGED <<snaps, made, current, backers, since>>
          /\ green' = [green EXCEPT ![c][r] = IF c = current THEN "failed" ELSE "none"]
      BY <1>9 DEF Bk!BackupFails, Bk!Ends
    <2>2. green' \in [Callers -> [Repos -> {"none", "running", "ok", "failed"}]]
      BY <1>0, <2>1
    <2>3. \A d \in Callers, q \in Repos : green'[d][q] = "ok" => green[d][q] = "ok"
      BY <1>0, <2>1
    <2> QED  BY <1>0, <2>1, <2>2, <2>3 DEF BackupInv, Left
  <1>10. ASSUME NEW c \in Callers, NEW r \in Repos, NEW keep \in 0 .. 2, Bk!Clean(c, r, keep)
         PROVE  BackupInv'
    <2>1. UNCHANGED <<made, green, current, since>> /\ backers[c].at = "idle"
          /\ snaps' = [snaps EXCEPT ![r] = @ \ (snaps[r] \ Bk!Newest(IF keep = 0 THEN 1 ELSE keep, snaps[r]))]
      BY <1>10 DEF Bk!Clean, Bk!Forget, Bk!Free
    <2>2. snaps' \in [Repos -> SUBSET Nat] /\ \A q \in Repos : snaps'[q] \subseteq snaps[q]
      BY <1>0, <2>1
    <2>3. CASE keep # 0
      <3>1. UNCHANGED backers
        BY <1>10, <2>3 DEF Bk!Clean
      <3> QED  BY <1>0, <2>1, <2>2, <3>1, BackupsGo
    <2>4. CASE keep = 0
      <3>1. backers' = [backers EXCEPT ![c].at = "list", ![c].repo = r]
        BY <1>10, <2>4 DEF Bk!Clean
      <3>2. backers[c] \in Doing
        BY <1>0
      <3>3. [backers[c] EXCEPT !.at = "list", !.repo = r] \in Doing
        BY <3>2 DEF Doing
      <3>4. backers' = [backers EXCEPT ![c] = [backers[c] EXCEPT !.at = "list", !.repo = r]]
        BY <1>0, <3>1
      <3>5. backers' \in [Callers -> Doing]
        BY <1>0, <3>3, <3>4
      <3>6. backers'[c].at = "list" /\ backers'[c].repo = r
        BY <1>0, <3>1, <3>2 DEF Doing
      <3>7. \A d \in Callers \ {c} : backers'[d] = backers[d]
        BY <1>0, <3>1
      <3>8. Cardinality(snaps'[r]) <= 1
        <4>1. snaps[r] \subseteq Nat /\ IsFiniteSet(snaps[r])
          BY <1>0
        <4>2. Bk!Newest(1, snaps[r]) \subseteq snaps[r] /\ Cardinality(Bk!Newest(1, snaps[r])) <= 1
          BY <4>1, NewestOne
        <4>3. snaps'[r] = snaps[r] \ (snaps[r] \ Bk!Newest(1, snaps[r]))
          BY <1>0, <2>1, <2>4
        <4>4. snaps'[r] = Bk!Newest(1, snaps[r])
          BY <4>2, <4>3
        <4> QED  BY <4>2, <4>4
      <3>9. since[c][r] \in Nat /\ Cardinality(snaps'[r]) \in Nat /\ \A q \in Repos : IsFiniteSet(snaps'[q])
        BY <1>0, <2>2, FS_Subset, FS_CardinalityType
      <3>10. Cardinality(snaps'[r]) <= since[c][r] + 1
        BY <3>8, <3>9
      <3>11. ASSUME NEW d \in Callers, backers'[d].at = "join"
             PROVE  current' \in Callers /\ \A q \in Repos : green'[current'][q] = "ok" => since'[d][q] > 0
        BY <2>1, <3>6, <3>7, <3>11 DEF BackupInv
      <3>12. ASSUME NEW d \in Callers, backers'[d].at \in {"list", "forget"}
             PROVE  backers'[d].repo \in Repos
        BY <3>6, <3>7, <3>12 DEF BackupInv
      <3>13. ASSUME NEW d \in Callers \ {c}, NEW ids, backers[d].repo \in Repos
             PROVE  /\ Cardinality(snaps'[backers[d].repo] \ ids) \in Nat
                    /\ Cardinality(snaps[backers[d].repo] \ ids) \in Nat
                    /\ Cardinality(snaps'[backers[d].repo] \ ids) <= Cardinality(snaps[backers[d].repo] \ ids)
        <4> DEFINE q == backers[d].repo
        <4>1. IsFiniteSet(snaps[q]) /\ snaps'[q] \subseteq snaps[q]
          BY <1>0, <2>2, <3>13
        <4> HIDE DEF q
        <4>2. snaps[q] \ ids \in SUBSET snaps[q] /\ snaps'[q] \ ids \in SUBSET (snaps[q] \ ids)
          BY <4>1
        <4>3. IsFiniteSet(snaps[q] \ ids)
          BY <4>1, <4>2, FS_Subset
        <4>4. /\ Cardinality(snaps'[q] \ ids) \in Nat /\ Cardinality(snaps[q] \ ids) \in Nat
              /\ Cardinality(snaps'[q] \ ids) <= Cardinality(snaps[q] \ ids)
          BY <4>2, <4>3, FS_Subset, FS_CardinalityType
        <4> QED  BY <4>4 DEF q
      <3>14. ASSUME NEW d \in Callers, backers'[d].at = "list"
             PROVE  Cardinality(snaps'[backers'[d].repo]) <= since'[d][backers'[d].repo] + 1
        <4>1. CASE d = c
          BY <2>1, <3>6, <3>10, <4>1
        <4>2. CASE d # c
          <5> DEFINE q == backers[d].repo
          <5>1. q \in Repos /\ Cardinality(snaps[q]) <= since[d][q] + 1 /\ since[d][q] \in Nat
            BY <3>7, <3>14, <4>2 DEF BackupInv
          <5>2. snaps[q] \ {} = snaps[q] /\ snaps'[q] \ {} = snaps'[q]
            OBVIOUS
          <5>3. /\ Cardinality(snaps'[q]) \in Nat /\ Cardinality(snaps[q]) \in Nat
                /\ Cardinality(snaps'[q]) <= Cardinality(snaps[q])
            BY <3>13, <4>2, <5>1, <5>2
          <5>4. backers'[d].repo = q /\ since'[d][q] = since[d][q]
            BY <2>1, <3>7, <4>2
          <5> HIDE DEF q
          <5> QED  BY <5>1, <5>3, <5>4
        <4> QED  BY <4>1, <4>2
      <3>15. ASSUME NEW d \in Callers, backers'[d].at = "forget"
             PROVE  Cardinality(Left(d)') <= since'[d][backers'[d].repo]
        <4> DEFINE q == backers[d].repo
                   ids == backers[d].ids
        <4>1. d # c /\ backers'[d] = backers[d] /\ d \in Callers \ {c}
          BY <3>6, <3>7, <3>15
        <4>2. q \in Repos /\ Cardinality(snaps[q] \ ids) <= since[d][q] /\ since[d][q] \in Nat
          BY <3>15, <4>1 DEF BackupInv, Left
        <4>3. /\ Cardinality(snaps'[q] \ ids) \in Nat /\ Cardinality(snaps[q] \ ids) \in Nat
              /\ Cardinality(snaps'[q] \ ids) <= Cardinality(snaps[q] \ ids)
          BY <3>13, <4>1, <4>2
        <4>4. Left(d)' = snaps'[q] \ ids /\ backers'[d].repo = q /\ since'[d][q] = since[d][q]
          BY <2>1, <4>1 DEF Left
        <4> HIDE DEF q, ids
        <4> QED  BY <4>2, <4>3, <4>4
      <3> QED  BY <1>0, <2>1, <2>2, <3>5, <3>9, <3>11, <3>12, <3>14, <3>15 DEF BackupInv
    <2> QED  BY <2>3, <2>4
  <1>11. CASE Bk!CreateJob
    BY <1>1, <1>11 DEF Bk!CreateJob
  <1>12. CASE UNCHANGED Bk!vars
    BY <1>1, <1>12 DEF Bk!vars
  <1> QED  BY <1>4, <1>5, <1>6, <1>7, <1>8, <1>9, <1>10, <1>11, <1>12 DEF Bk!Next

\* The behaviours of Server are behaviours of Backup.
LEMMA BackupSteps == Spec => Bk!Spec
  <1>1. Init => Bk!Init
    BY DEF Init
  <1>2. [Next]_vars => [Bk!Next]_(Bk!vars)
    BY DEF Next, vars, PackagesRuns, BackupRuns, CrontabRuns, NoticesRuns, MailsRuns,
       IdentityRuns, WalletsRuns, LoginRuns, CertificatesRuns, PollsRuns, backupVars, Bk!vars
  <1> QED  BY <1>1, <1>2, PTL DEF Spec, Bk!Spec

\* The backups keep what is promised, in every state.
LEMMA BackupKept == Spec => Bk!SavedMeansSaved /\ Bk!CleanLeavesNone
  <1>1. ASSUME BackupInv, [Bk!Next]_(Bk!vars)
        PROVE  [\A c \in Callers : Bk!ExecuteReturns(c) /\ Bk!Verdict
                  => \A r \in Repos : since[c][r] > 0]_(Bk!vars)
    <2> SUFFICES ASSUME NEW c \in Callers, Bk!ExecuteReturns(c), Bk!Verdict, NEW r \in Repos
                 PROVE  since[c][r] > 0
      OBVIOUS
    <2>1. backers[c].at = "join"
      BY DEF Bk!ExecuteReturns
    <2>2. green[current][r] = "ok"
      BY DEF Bk!Verdict
    <2> QED  BY <1>1, <2>1, <2>2 DEF BackupInv
  <1>2. ASSUME BackupInv, [Bk!Next]_(Bk!vars)
        PROVE  [\A c \in Callers : Bk!ForgetLast(c) =>
                  LET r == backers[c].repo IN Bk!Cardinality(snaps'[r]) <= since[c][r]]_(Bk!vars)
    <2> SUFFICES ASSUME NEW c \in Callers, Bk!ForgetLast(c)
                 PROVE  Bk!Cardinality(snaps'[backers[c].repo]) <= since[c][backers[c].repo]
      OBVIOUS
    <2>1. backers[c].at = "forget" /\ snaps' = [snaps EXCEPT ![backers[c].repo] = @ \ backers[c].ids]
      BY DEF Bk!ForgetLast, Bk!Forget
    <2>2. Cardinality(Left(c)) <= since[c][backers[c].repo]
      BY <1>2, <2>1 DEF BackupInv
    <2>4. backers[c].repo \in Repos /\ snaps \in [Repos -> SUBSET Nat]
      BY <1>2, <2>1 DEF BackupInv
    <2>3. snaps'[backers[c].repo] = Left(c)
      BY <2>1, <2>4 DEF Left
    <2> QED  BY <2>2, <2>3, Counted
  <1> QED  BY <1>1, <1>2, BackupInit, BackupNext, BackupSteps, PTL
           DEF Bk!Spec, Bk!SavedMeansSaved, Bk!CleanLeavesNone

-----------------------------------------------------------------------------
(* Crontab.                                                                *)

Scheduling == {"check", "script", "write"}
CronStages == {"idle", "repo"} \cup Scheduling
CronOps == Cr!Kinds \cup {"none", "init", "disable"}
Counts == [Cr!Lines -> Nat]
Crons == [at : CronStages, op : CronOps, path : Paths, lines : Counts]

\* A caller that nobody has overtaken has the lines there are; from its check on no
\* line of them names its script, and from its script on that does what it says.
Current(c) ==
    crons[c].at \in Scheduling /\ c \notin stale =>
      /\ crons[c].lines = crontab
      /\ crons[c].at # "check" /\ crons[c].op # "disable" =>
           \A line \in Cr!Lines : crontab[line] > 0 => ~Cr!Names(line, crons[c].path)
      /\ crons[c].at = "write" /\ crons[c].op # "disable" =>
           scripts[crons[c].path] = crons[c].op

CrontabTypes ==
    /\ crontab \in Counts
    /\ scripts \in [Paths -> Cr!Kinds \cup {"none"}]
    /\ crons \in [Callers -> Crons]
    /\ \A c \in Callers : crons[c].at \in Scheduling =>
         crons[c].op \in Cr!Kinds \/ (crons[c].at = "write" /\ crons[c].op = "disable")
CrontabInv ==
    /\ CrontabTypes
    /\ \A c \in Callers : Current(c)
    /\ Cr!BackupsStayScheduled

\* What the promise says of one path.
Scheduled(p) ==
    /\ p \in wanted => crontab[[kind |-> "backup", path |-> p]] > 0
    /\ \A line \in Cr!Lines : line.path = p /\ crontab[line] > 0 =>
         /\ crontab[line] = 1 /\ scripts[p] = line.kind
         /\ \A other \in Cr!Lines : other.path = p /\ crontab[other] > 0 => other = line

AllScheduled == \A p \in Paths \ torn : Scheduled(p)

\* What is promised of the crontab, caller by caller.
LEMMA ScheduledAll == Cr!BackupsStayScheduled <=> AllScheduled
  <1>1. ASSUME NEW p \in Paths
        PROVE  /\ [kind |-> "backup", path |-> p] \in Cr!Lines
               /\ [kind |-> "backup", path |-> p].path = p
    BY DEF Cr!Lines, Cr!Kinds
  <1>2. ASSUME NEW p \in Paths \ torn, Cr!BackupsStayScheduled PROVE Scheduled(p)
    <2> DEFINE lines == {line \in Cr!Lines : line.path = p /\ crontab[line] > 0}
    <2>1. /\ p \in wanted => [kind |-> "backup", path |-> p] \in lines
          /\ \A line \in lines : crontab[line] = 1 /\ lines = {line} /\ scripts[p] = line.kind
      BY <1>2 DEF Cr!BackupsStayScheduled
    <2>2. \A line \in Cr!Lines : line \in lines <=> line.path = p /\ crontab[line] > 0
      OBVIOUS
    <2>3. p \in wanted => crontab[[kind |-> "backup", path |-> p]] > 0
      BY <2>1
    <2> HIDE DEF lines
    <2> QED  BY <2>1, <2>2, <2>3 DEF Scheduled
  <1>3. ASSUME NEW p \in Paths \ torn, Scheduled(p)
        PROVE  LET lines == {line \in Cr!Lines : line.path = p /\ crontab[line] > 0}
               IN /\ p \in wanted => [kind |-> "backup", path |-> p] \in lines
                  /\ \A line \in lines :
                       crontab[line] = 1 /\ lines = {line} /\ scripts[p] = line.kind
    <2> DEFINE lines == {line \in Cr!Lines : line.path = p /\ crontab[line] > 0}
    <2>1. \A line : line \in lines <=> line \in Cr!Lines /\ line.path = p /\ crontab[line] > 0
      OBVIOUS
    <2>2. p \in wanted => [kind |-> "backup", path |-> p] \in lines
      BY <1>1, <1>3, <2>1 DEF Scheduled
    <2>3. ASSUME NEW line \in lines
          PROVE  crontab[line] = 1 /\ lines = {line} /\ scripts[p] = line.kind
      <3>1. line \in Cr!Lines /\ line.path = p /\ crontab[line] > 0
        BY <2>3
      <3>2. \A other \in lines : other = line
        <4> HIDE DEF lines
        <4> QED  BY <1>3, <2>1, <3>1 DEF Scheduled
      <3> HIDE DEF lines
      <3>3. lines = {line}
        BY <2>3, <3>2
      <3> QED  BY <1>3, <3>1, <3>3 DEF Scheduled
    <2> QED  BY <2>2, <2>3
  <1> QED  BY <1>2, <1>3 DEF Cr!BackupsStayScheduled, AllScheduled

\* The invariant of the crontab holds at first.
LEMMA CrontabInit == Paths # {} /\ Cr!Init => CrontabInv
  <1> SUFFICES ASSUME Paths # {}, Cr!Init PROVE CrontabInv
    OBVIOUS
  <1>1. /\ crontab = Cr!Empty /\ scripts = [p \in Paths |-> "none"]
        /\ crons = [c \in Callers |-> Cr!Idle] /\ wanted = {} /\ stale = {} /\ torn = {}
    BY DEF Cr!Init
  <1>2. Cr!Empty \in Counts /\ \A line \in Cr!Lines : Cr!Empty[line] = 0
    BY DEF Cr!Empty, Counts
  <1>3. Cr!Idle \in Crons /\ Cr!Idle.at = "idle"
    BY <1>2 DEF Cr!Idle, Crons, CronStages, CronOps
  <1>4. CrontabTypes
    BY <1>1, <1>2, <1>3 DEF CrontabTypes, Scheduling
  <1>5. \A c \in Callers : Current(c)
    BY <1>1, <1>3 DEF Current, Scheduling
  <1>6. AllScheduled
    BY <1>1, <1>2 DEF Scheduled, AllScheduled
  <1> QED  BY <1>4, <1>5, <1>6, ScheduledAll DEF CrontabInv, AllScheduled

\* A caller goes on, or begins, or ends, and nothing else changes.
LEMMA CrontabGoes ==
  ASSUME CrontabInv, UNCHANGED <<crontab, scripts, torn>>, NEW c \in Callers,
         wanted' \subseteq wanted \cup {p \in Paths : crontab[[kind |-> "backup", path |-> p]] > 0},
         crons' \in [Callers -> Crons], \A d \in Callers \ {c} : crons'[d] = crons[d],
         stale \subseteq stale' \cup {c},
         crons'[c].at \in Scheduling =>
           crons'[c].op \in Cr!Kinds \/ (crons'[c].at = "write" /\ crons'[c].op = "disable"),
         Current(c)'
  PROVE  CrontabInv'
  <1>1. CrontabTypes'
    BY DEF CrontabInv, CrontabTypes
  <1>2. ASSUME NEW d \in Callers PROVE Current(d)'
    <2>1. CASE d = c
      BY <2>1
    <2>2. CASE d # c
      <3>1. crons'[d] = crons[d] /\ (d \in stale => d \in stale')
        BY <2>2
      <3> QED  BY <3>1 DEF CrontabInv, Current
    <2> QED  BY <2>1, <2>2
  <1>3. ASSUME NEW p \in Paths \ torn' PROVE Scheduled(p)'
    <2>1. Scheduled(p)
      BY ScheduledAll DEF CrontabInv, AllScheduled
    <2>2. p \in wanted' => crontab[[kind |-> "backup", path |-> p]] > 0
      BY <2>1 DEF Scheduled
    <2> QED  BY <2>1, <2>2 DEF Scheduled
  <1>4. Cr!BackupsStayScheduled'
    <2>1. AllScheduled'
      BY <1>3 DEF AllScheduled
    <2> QED  BY <2>1, ScheduledAll, PTL
  <1> QED  BY <1>1, <1>2, <1>4 DEF CrontabInv

\* Every step of the crontab keeps its invariant.
LEMMA CrontabNext ==
  ASSUME Paths # {}, CrontabInv, [Cr!Next]_(Cr!vars)
  PROVE  CrontabInv'
  <1>0. /\ CrontabTypes /\ crontab \in Counts /\ crons \in [Callers -> Crons]
        /\ scripts \in [Paths -> Cr!Kinds \cup {"none"}]
        /\ \A c \in Callers : crons[c] \in Crons
    BY DEF CrontabInv, CrontabTypes
  <1>1. Cr!Idle \in Crons /\ Cr!Idle.at = "idle" /\ Cr!Idle.path \in Paths /\ Cr!Empty \in Counts
    BY DEF Cr!Idle, Cr!Empty, Crons, CronStages, CronOps, Counts
  <1>2. ASSUME NEW c \in Callers, Cr!Returns(c)
        PROVE  /\ crons' \in [Callers -> Crons] /\ crons'[c].at \notin Scheduling
               /\ \A d \in Callers \ {c} : crons'[d] = crons[d]
               /\ Current(c)'
    <2>1. crons' = [crons EXCEPT ![c] = Cr!Idle]
      BY <1>2 DEF Cr!Returns
    <2>2. crons'[c].at \notin Scheduling
      BY <1>0, <1>1, <2>1 DEF Scheduling
    <2> QED  BY <1>0, <1>1, <2>1, <2>2 DEF Current
  <1>3. ASSUME NEW c \in Callers, NEW stage, NEW op, NEW p \in Paths, NEW lines \in Counts,
               stage \in CronStages, op \in CronOps, Cr!Begins(c, stage, op, p, lines)
        PROVE  /\ crons' \in [Callers -> Crons] /\ UNCHANGED <<stale, torn>>
               /\ crons'[c].at = stage /\ crons'[c].op = op /\ crons'[c].lines = lines
               /\ \A d \in Callers \ {c} : crons'[d] = crons[d]
    <2> DEFINE begun == [at |-> stage, op |-> op, path |-> p, lines |-> lines]
    <2>1. crons' = [crons EXCEPT ![c] = begun] /\ UNCHANGED <<stale, torn>>
      BY <1>3 DEF Cr!Begins
    <2>2. begun \in Crons
      BY <1>3 DEF Crons
    <2> QED  BY <1>0, <2>1, <2>2
  <1>4. ASSUME NEW c \in Callers, NEW stage, stage \in CronStages, Cr!Goes(c, stage)
        PROVE  /\ crons' \in [Callers -> Crons]
               /\ crons'[c].at = stage /\ crons'[c].op = crons[c].op
               /\ crons'[c].lines = crons[c].lines /\ crons'[c].path = crons[c].path
               /\ \A d \in Callers \ {c} : crons'[d] = crons[d]
    <2>1. crons' = [crons EXCEPT ![c].at = stage]
      BY <1>4 DEF Cr!Goes
    <2>2. crons[c] \in Crons
      BY <1>0
    <2>3. [crons[c] EXCEPT !.at = stage] \in Crons
      BY <1>4, <2>2 DEF Crons
    <2>4. crons'[c] = [crons[c] EXCEPT !.at = stage]
      BY <1>0, <2>1
    <2> QED  BY <1>0, <2>1, <2>2, <2>3, <2>4 DEF Crons
  <1>5. ASSUME NEW c \in Callers, Cr!InitClient(c) PROVE CrontabInv'
    <2>1. Cr!Begins(c, "repo", "init", Cr!Idle.path, Cr!Empty) /\ UNCHANGED <<crontab, scripts, wanted>>
      BY <1>5 DEF Cr!InitClient
    <2>2. "repo" \in CronStages /\ "init" \in CronOps /\ "repo" \notin Scheduling
      BY DEF CronStages, CronOps, Scheduling
    <2>3. /\ crons' \in [Callers -> Crons] /\ UNCHANGED <<stale, torn>> /\ crons'[c].at = "repo"
          /\ \A d \in Callers \ {c} : crons'[d] = crons[d]
      BY <1>1, <1>3, <2>1, <2>2
    <2>4. Current(c)'
      BY <2>2, <2>3 DEF Current
    <2> QED  BY <2>1, <2>2, <2>3, <2>4, CrontabGoes
  <1>6. ASSUME NEW c \in Callers, NEW ok \in BOOLEAN, Cr!InitRepo(c, ok) PROVE CrontabInv'
    <2>1. Cr!Returns(c) /\ UNCHANGED <<crontab, scripts, wanted, stale, torn>>
      BY <1>6 DEF Cr!InitRepo
    <2> QED  BY <1>2, <2>1, CrontabGoes
  <1>7. ASSUME NEW c \in Callers, NEW op, op \in Cr!Kinds \cup {"disable"}, NEW p \in Paths,
               Cr!Schedule(c, op, p)
        PROVE  CrontabInv'
    <2> DEFINE stage == IF op = "disable" THEN "write" ELSE "check"
    <2>1. Cr!Begins(c, stage, op, p, crontab) /\ UNCHANGED <<crontab, scripts, wanted>>
      BY <1>7 DEF Cr!Schedule
    <2>2. /\ stage \in CronStages /\ op \in CronOps /\ stage # "script"
          /\ (stage = "write" => op = "disable") /\ (op # "disable" => op \in Cr!Kinds)
      BY <1>7 DEF CronStages, CronOps, Scheduling
    <2> HIDE DEF stage
    <2>3. /\ crons' \in [Callers -> Crons] /\ UNCHANGED <<stale, torn>>
          /\ crons'[c].at = stage /\ crons'[c].op = op /\ crons'[c].lines = crontab
          /\ \A d \in Callers \ {c} : crons'[d] = crons[d]
      BY <1>0, <1>3, <2>1, <2>2
    <2>4. Current(c)'
      BY <2>1, <2>2, <2>3 DEF Current, Scheduling
    <2>5. crons'[c].op \in Cr!Kinds \/ (crons'[c].at = "write" /\ crons'[c].op = "disable")
      BY <2>2, <2>3 DEF stage
    <2> QED  BY <2>1, <2>3, <2>4, <2>5, CrontabGoes
  <1>8. ASSUME NEW c \in Callers, Cr!Check(c) PROVE CrontabInv'
    <2> DEFINE p == crons[c].path
    <2>1. crons[c].at = "check" /\ UNCHANGED <<crontab, scripts, torn>>
      BY <1>8 DEF Cr!Check, Cr!At
    <2>2. p \in Paths /\ crons[c].op \in Cr!Kinds
      BY <1>0, <2>1 DEF CrontabTypes, Crons, Scheduling
    <2>3. CASE Cr!Running(p)
      <3>1. Cr!Returns(c) /\ stale' = stale \ {c}
            /\ wanted' = IF crons[c].op = "backup" /\ ~Cr!Misled(p) THEN wanted \cup {p} ELSE wanted
        BY <1>8, <2>3 DEF Cr!Check
      <3>2. ~Cr!Misled(p) => crontab[[kind |-> "backup", path |-> p]] > 0
        BY <2>3 DEF Cr!Running, Cr!Misled
      <3>3. wanted' \subseteq wanted \cup {q \in Paths : crontab[[kind |-> "backup", path |-> q]] > 0}
        BY <2>2, <3>1, <3>2
      <3> QED  BY <1>2, <2>1, <3>1, <3>3, CrontabGoes
    <2>4. CASE ~Cr!Running(p)
      <3>1. Cr!Goes(c, "script") /\ UNCHANGED <<stale, wanted>>
        BY <1>8, <2>4 DEF Cr!Check
      <3>2. \A line \in Cr!Lines : crontab[line] > 0 => ~Cr!Names(line, p)
        BY <2>4 DEF Cr!Running
      <3>3. "script" \in CronStages /\ "script" \in Scheduling /\ "check" \in Scheduling
        BY DEF CronStages, Scheduling
      <3>4. /\ crons' \in [Callers -> Crons]
            /\ crons'[c].at = "script" /\ crons'[c].op = crons[c].op
            /\ crons'[c].lines = crons[c].lines /\ crons'[c].path = p
            /\ \A d \in Callers \ {c} : crons'[d] = crons[d]
        BY <1>4, <3>1, <3>3
      <3> HIDE DEF p
      <3>5. Current(c)'
        <4>1. c \notin stale => crons[c].lines = crontab
          BY <2>1, <3>3 DEF CrontabInv, Current
        <4> QED  BY <2>1, <3>1, <3>2, <3>4, <4>1 DEF Current
      <3> QED  BY <2>1, <2>2, <3>1, <3>4, <3>5, CrontabGoes
    <2> QED  BY <2>3, <2>4
  <1>9. ASSUME NEW c \in Callers, Cr!WriteScript(c) PROVE CrontabInv'
    <2> DEFINE p == crons[c].path
               op == crons[c].op
    <2>1. /\ crons[c].at = "script" /\ Cr!Goes(c, "write") /\ UNCHANGED <<crontab, wanted>>
          /\ scripts' = [scripts EXCEPT ![p] = op]
          /\ stale' = stale \cup {d \in Callers \ {c} : crons[d].at = "write" /\ crons[d].path = p}
          /\ torn' = IF c \in stale THEN torn \cup {p} ELSE torn
      BY <1>9 DEF Cr!WriteScript, Cr!At
    <2>2. p \in Paths /\ op \in Cr!Kinds
      BY <1>0, <2>1 DEF CrontabTypes, Crons, Scheduling
    <2>3. "write" \in CronStages /\ "script" \in Scheduling /\ "write" \in Scheduling
      BY DEF CronStages, Scheduling
    <2>4. /\ crons' \in [Callers -> Crons]
          /\ crons'[c].at = "write" /\ crons'[c].op = op
          /\ crons'[c].lines = crons[c].lines /\ crons'[c].path = p
          /\ \A d \in Callers \ {c} : crons'[d] = crons[d]
      BY <1>4, <2>1, <2>3
    <2>5. c \notin stale => /\ crons[c].lines = crontab
                            /\ \A line \in Cr!Lines : crontab[line] > 0 => ~Cr!Names(line, p)
      <3>1. op # "disable"
        BY <2>2 DEF Cr!Kinds
      <3> QED  BY <2>1, <2>3, <3>1 DEF CrontabInv, Current
    <2> HIDE DEF p, op
    <2>6. scripts' \in [Paths -> Cr!Kinds \cup {"none"}] /\ scripts'[p] = op
          /\ \A q \in Paths \ {p} : scripts'[q] = scripts[q]
      BY <1>0, <2>1, <2>2
    <2>7. CrontabTypes'
      <3>1. \A d \in Callers : crons'[d].at \in Scheduling =>
              crons'[d].op \in Cr!Kinds \/ (crons'[d].at = "write" /\ crons'[d].op = "disable")
        BY <1>0, <2>2, <2>4 DEF CrontabTypes
      <3> QED  BY <1>0, <2>1, <2>4, <2>6, <3>1 DEF CrontabTypes
    <2>8. ASSUME NEW d \in Callers PROVE Current(d)'
      <3>1. CASE d = c
        BY <2>1, <2>4, <2>5, <2>6, <3>1 DEF Current
      <3>2. CASE d # c
        <4> SUFFICES ASSUME crons'[d].at \in Scheduling, d \notin stale' PROVE Current(d)'
          BY DEF Current
        <4>1. crons'[d] = crons[d] /\ d \notin stale /\ Current(d)
          BY <2>1, <2>4, <3>2 DEF CrontabInv
        <4>2. crons[d].at = "write" => crons[d].path # p
          BY <2>1, <3>2
        <4>3. crons[d].path \in Paths
          BY <1>0 DEF Crons
        <4>4. crons[d].at = "write" => scripts'[crons[d].path] = scripts[crons[d].path]
          BY <2>6, <4>2, <4>3
        <4> QED  BY <2>1, <4>1, <4>4 DEF Current
      <3> QED  BY <3>1, <3>2
    <2>9. ASSUME NEW q \in Paths \ torn' PROVE Scheduled(q)'
      <3>1. q \in Paths \ torn /\ Scheduled(q)
        BY <2>1, <2>9, ScheduledAll DEF CrontabInv, AllScheduled
      <3>2. CASE q # p
        <4>1. scripts'[q] = scripts[q]
          BY <2>6, <2>9, <3>2
        <4> QED  BY <2>1, <3>1, <4>1 DEF Scheduled
      <3>3. CASE q = p
        <4>1. c \notin stale
          BY <2>1, <2>9, <3>3
        <4>2. \A line \in Cr!Lines : line.path = p => ~(crontab[line] > 0)
          BY <2>5, <4>1 DEF Cr!Names
        <4>3. [kind |-> "backup", path |-> p] \in Cr!Lines /\ [kind |-> "backup", path |-> p].path = p
          BY <2>2 DEF Cr!Lines, Cr!Kinds
        <4> QED  BY <2>1, <3>1, <3>3, <4>2, <4>3 DEF Scheduled
      <3> QED  BY <3>2, <3>3
    <2>10. Cr!BackupsStayScheduled'
      <3>1. AllScheduled'
        BY <2>9 DEF AllScheduled
      <3> QED  BY <3>1, ScheduledAll, PTL
    <2> QED  BY <2>7, <2>8, <2>10 DEF CrontabInv
  <1>10. ASSUME NEW c \in Callers, Cr!WriteLines(c) PROVE CrontabInv'
    <2> DEFINE p == crons[c].path
               op == crons[c].op
               it == [kind |-> op, path |-> p]
               lines == crons[c].lines
    <2>1. /\ crons[c].at = "write" /\ Cr!Returns(c) /\ UNCHANGED scripts
          /\ crontab' = IF op = "disable"
                        THEN [line \in Cr!Lines |-> IF Cr!Names(line, p) THEN 0 ELSE lines[line]]
                        ELSE [lines EXCEPT ![it] = @ + 1]
          /\ wanted' = CASE op = "backup" -> wanted \cup {p}
                         [] op = "disable" -> wanted \ Cr!Stopped(p)
                         [] OTHER -> wanted
          /\ stale' = {d \in Callers \ {c} : crons[d].at \in Scheduling}
          /\ torn' = IF c \in stale THEN Paths
                     ELSE IF op = "disable" THEN torn \ Cr!Stopped(p) ELSE torn
      BY <1>10 DEF Cr!WriteLines, Cr!At, Cr!Written, Scheduling
    <2>2. p \in Paths /\ (op \in Cr!Kinds \/ op = "disable") /\ lines \in Counts
          /\ "disable" \notin Cr!Kinds /\ "write" \in Scheduling
      BY <1>0, <2>1 DEF CrontabTypes, Crons, Scheduling, Cr!Kinds
    <2>3. c \notin stale =>
            /\ lines = crontab
            /\ op # "disable" => /\ \A line \in Cr!Lines : crontab[line] > 0 => ~Cr!Names(line, p)
                                 /\ scripts[p] = op
      BY <2>1, <2>2 DEF CrontabInv, Current
    <2> HIDE DEF p, op, lines
    <2>4. op # "disable" => it \in Cr!Lines /\ it.path = p /\ it.kind = op
      BY <2>2 DEF Cr!Lines
    <2> HIDE DEF it
    <2>5. crontab' \in Counts
      <3>1. CASE op = "disable"
        BY <2>1, <2>2, <3>1 DEF Counts
      <3>2. CASE op # "disable"
        BY <2>1, <2>2, <2>4, <3>2 DEF Counts
      <3> QED  BY <3>1, <3>2
    <2>6. /\ crons' \in [Callers -> Crons] /\ crons'[c].at \notin Scheduling
          /\ \A d \in Callers \ {c} : crons'[d] = crons[d]
      BY <1>2, <2>1
    <2>7. CrontabTypes'
      <3>1. \A d \in Callers : crons'[d].at \in Scheduling =>
              crons'[d].op \in Cr!Kinds \/ (crons'[d].at = "write" /\ crons'[d].op = "disable")
        BY <1>0, <2>6 DEF CrontabTypes
      <3> QED  BY <1>0, <2>1, <2>5, <2>6, <3>1 DEF CrontabTypes
    <2>8. ASSUME NEW d \in Callers PROVE Current(d)'
      <3>1. crons'[d].at \in Scheduling => d \in stale'
        BY <2>1, <2>6
      <3> QED  BY <3>1 DEF Current
    <2>9. ASSUME NEW q \in Paths \ torn' PROVE Scheduled(q)'
      <3>1. c \notin stale /\ lines = crontab
        BY <2>1, <2>3, <2>9
      <3>2. CASE op = "disable"
        <4>1. /\ torn' = torn \ Cr!Stopped(p) /\ wanted' = wanted \ Cr!Stopped(p)
              /\ \A line \in Cr!Lines : crontab'[line] = IF Cr!Names(line, p) THEN 0 ELSE crontab[line]
          BY <2>1, <3>1, <3>2
        <4>2. \A line \in Cr!Lines : line.path = q => (Cr!Names(line, p) <=> q \in Cr!Stopped(p))
          BY <2>9 DEF Cr!Names, Cr!Stopped
        <4>3. CASE q \in Cr!Stopped(p)
          <5>1. \A line \in Cr!Lines : line.path = q => ~(crontab'[line] > 0)
            BY <4>1, <4>2, <4>3
          <5> QED  BY <4>1, <4>3, <5>1 DEF Scheduled
        <4>4. CASE q \notin Cr!Stopped(p)
          <5>1. Scheduled(q)
            BY <2>9, <4>1, <4>4, ScheduledAll DEF CrontabInv, AllScheduled
          <5>2. \A line \in Cr!Lines : line.path = q => crontab'[line] = crontab[line]
            BY <4>1, <4>2, <4>4
          <5>3. [kind |-> "backup", path |-> q] \in Cr!Lines /\ [kind |-> "backup", path |-> q].path = q
            BY DEF Cr!Lines, Cr!Kinds
          <5> QED  BY <2>1, <4>1, <5>1, <5>2, <5>3 DEF Scheduled
        <4> QED  BY <4>3, <4>4
      <3>3. CASE op # "disable"
        <4>1. /\ torn' = torn /\ it \in Cr!Lines /\ it.path = p /\ it.kind = op
              /\ wanted' = IF op = "backup" THEN wanted \cup {p} ELSE wanted
              /\ crontab' = [crontab EXCEPT ![it] = @ + 1]
          BY <2>1, <2>4, <3>1, <3>3
        <4>2. Scheduled(q)
          BY <2>9, <4>1, ScheduledAll DEF CrontabInv, AllScheduled
        <4>3. \A line \in Cr!Lines : line # it => crontab'[line] = crontab[line]
          BY <1>0, <4>1 DEF Counts
        <4>4. [kind |-> "backup", path |-> q] \in Cr!Lines /\ [kind |-> "backup", path |-> q].path = q
          BY DEF Cr!Lines, Cr!Kinds
        <4>5. CASE q # p
          <5>1. \A line \in Cr!Lines : line.path = q => crontab'[line] = crontab[line]
            BY <4>1, <4>3, <4>5
          <5>2. q \in wanted' => q \in wanted
            BY <4>1, <4>5
          <5> QED  BY <2>1, <4>2, <4>4, <5>1, <5>2 DEF Scheduled
        <4>6. CASE q = p
          <5>1. \A line \in Cr!Lines : line.path = p => ~(crontab[line] > 0)
            BY <2>3, <3>1, <3>3 DEF Cr!Names
          <5>2. q \notin wanted
            BY <4>2, <4>4, <4>6, <5>1 DEF Scheduled
          <5>3. crontab'[it] = 1
            <6>1. crontab[it] \in Nat /\ ~(crontab[it] > 0)
              BY <1>0, <4>1, <5>1 DEF Counts
            <6>2. crontab'[it] = crontab[it] + 1
              BY <1>0, <4>1 DEF Counts
            <6> QED  BY <6>1, <6>2
          <5>4. \A line \in Cr!Lines : line.path = q /\ crontab'[line] > 0 => line = it
            BY <4>3, <4>6, <5>1
          <5>5. q \in wanted' => it = [kind |-> "backup", path |-> q]
            <6>1. q \in wanted' => op = "backup"
              BY <4>1, <5>2
            <6> QED  BY <6>1, <4>6 DEF it
          <5>6. scripts'[q] = it.kind
            BY <2>1, <2>3, <3>1, <3>3, <4>1, <4>6
          <5> QED  BY <5>3, <5>4, <5>5, <5>6 DEF Scheduled
        <4> QED  BY <4>5, <4>6
      <3> QED  BY <3>2, <3>3
    <2>10. Cr!BackupsStayScheduled'
      <3>1. AllScheduled'
        BY <2>9 DEF AllScheduled
      <3> QED  BY <3>1, ScheduledAll, PTL
    <2> QED  BY <2>7, <2>8, <2>10 DEF CrontabInv
  <1>11. ASSUME NEW c \in Callers, Cr!WriteFails(c) PROVE CrontabInv'
    <2>1. Cr!Returns(c) /\ UNCHANGED <<crontab, scripts, wanted, torn>> /\ stale' = stale \ {c}
      BY <1>11 DEF Cr!WriteFails
    <2> QED  BY <1>2, <2>1, CrontabGoes
  <1>12. CASE UNCHANGED Cr!vars
    <2>1. UNCHANGED <<crontab, scripts, crons, wanted, stale, torn>>
      BY <1>12 DEF Cr!vars
    <2>2. \A p : Scheduled(p) => Scheduled(p)'
      BY <2>1 DEF Scheduled
    <2>3. \A p \in Paths \ torn' : Scheduled(p)'
      BY <2>1, <2>2, ScheduledAll DEF CrontabInv, AllScheduled
    <2>4. Cr!BackupsStayScheduled'
      <3>1. AllScheduled'
        BY <2>3 DEF AllScheduled
      <3> QED  BY <3>1, ScheduledAll, PTL
    <2> QED  BY <2>1, <2>4 DEF CrontabInv, CrontabTypes, Current
  <1> QED  BY <1>5, <1>6, <1>7, <1>8, <1>9, <1>10, <1>11, <1>12 DEF Cr!Next

\* The behaviours of Server are behaviours of Crontab.
LEMMA CrontabSteps == Spec => Cr!Spec
  <1>1. Init => Cr!Init
    BY DEF Init
  <1>2. [Next]_vars => [Cr!Next]_(Cr!vars)
    BY DEF Next, vars, PackagesRuns, BackupRuns, CrontabRuns, NoticesRuns, MailsRuns,
       IdentityRuns, WalletsRuns, LoginRuns, CertificatesRuns, PollsRuns, crontabVars, Cr!vars
  <1> QED  BY <1>1, <1>2, PTL DEF Spec, Cr!Spec

\* The crontab keeps what is promised, in every state.
LEMMA CrontabKept == Spec => [](which = "crontab" => Cr!BackupsStayScheduled)
  <1>1. Paths # {}
    BY ServerAssumption DEF Cr!CrontabAssumption
  <1>2. CrontabInv => (which = "crontab" => Cr!BackupsStayScheduled)
    BY DEF CrontabInv
  <1> QED  BY <1>1, <1>2, CrontabInit, CrontabNext, CrontabSteps, PTL DEF Cr!Spec

-----------------------------------------------------------------------------
(* Polls.                                                                  *)

Talking == [at : {"none", "welcome", "pay", "read", "more", "votes", "result",
                  "error", "stopped", "end"},
            copy : Pl!Record, more : BOOLEAN, wallet : Wallets \cup {Nobody}]

\* A record of the voter u adds up, and its code was drawn by a session of u.
RecordFits(u, r) ==
    /\ r \in Pl!Record
    /\ Pl!Weighed(u, r)
    /\ r.code # Nobody => VoterOf[r.code] = u

\* The balance that a session reads is that of a wallet it has listed and not counted.
TalkFits(s, t) ==
    /\ t \in Talking
    /\ RecordFits(VoterOf[s], t.copy)
    /\ t.at = "read" => t.wallet \in t.copy.wallets \cap t.copy.unread

\* Every record is as it should be, the stored ones and the copies of the sessions, those
\* of sessions that have not begun or have ended too.
PollsInv ==
    /\ users \in [Voters -> Pl!Record]
    /\ talk \in [Callers -> Talking]
    /\ payments \subseteq Callers \X Wallets
    /\ \A u \in Voters : RecordFits(u, users[u])
    /\ \A s \in Callers : TalkFits(s, talk[s])

\* The constants of the polls.
LEMMA PollsConstants ==
  /\ VoterOf \in [Callers -> Voters] /\ Tokens \in [Wallets -> Nat]
  /\ IsFiniteSet(Wallets) /\ Nobody \notin Callers \cup Wallets
  BY ServerAssumption DEF ServerAssumption, Pl!PollsAssumption, Pl!IsFiniteSet, IsFiniteSet

\* What wallets hold is the sum of what each does.
LEMMA HeldIsSum == \A W : Pl!Held(W) = Sum(Tokens, W)
  BY DEF Pl!Held, Pl!FoldSet, Pl!MapThenFoldSet, Sum, FoldSet, MapThenFoldSet

\* What wallets hold is a number, at most what all hold, and grows by what one holds.
LEMMA HeldFacts ==
  /\ Pl!Held({}) = 0
  /\ \A W \in SUBSET Wallets :
       /\ Pl!Held(W) \in 0 .. Pl!Most
       /\ \A w \in Wallets \ W : Pl!Held(W \cup {w}) = Pl!Held(W) + Tokens[w]
  <1>1. Pl!Held({}) = 0
    BY HeldIsSum, SumEmpty
  <1>2. ASSUME NEW W \in SUBSET Wallets
        PROVE  /\ Pl!Held(W) \in 0 .. Pl!Most
               /\ \A w \in Wallets \ W : Pl!Held(W \cup {w}) = Pl!Held(W) + Tokens[w]
    <2>1. \A w \in Wallets : Tokens[w] \in Nat
      BY PollsConstants
    <2>2. Sum(Tokens, W) \in Nat /\ Sum(Tokens, Wallets) \in Nat
      BY <2>1, PollsConstants, SumIsNat
    <2>3. Sum(Tokens, W) <= Sum(Tokens, Wallets)
      BY <2>1, PollsConstants, SumOfPart
    <2>4. \A w \in Wallets \ W : Sum(Tokens, W \cup {w}) = Tokens[w] + Sum(Tokens, W)
      BY <2>1, PollsConstants, SumTakesIn
    <2> QED
      BY <2>1, <2>2, <2>3, <2>4, HeldIsSum DEF Pl!Most
  <1> QED
    BY <1>1, <1>2

\* A blank record adds up, whoever gets it.
LEMMA BlankFits ==
  ASSUME NEW u PROVE RecordFits(u, Pl!Blank)
  <1>1. Pl!Blank \in Pl!Record
    <2>1. 0 \in 0 .. Pl!Most
      BY HeldFacts
    <2> QED
      BY <2>1 DEF Pl!Blank, Pl!Record, Pl!Codes
  <1> QED
    BY <1>1, HeldFacts DEF RecordFits, Pl!Weighed, Pl!Blank

\* A session that begins, or has ended, fits what is recorded.
LEMMA NewcomerFits ==
  ASSUME NEW s \in Callers
  PROVE  TalkFits(s, Pl!Newcomer) /\ TalkFits(s, [Pl!Newcomer EXCEPT !.at = "end"])
  BY BlankFits DEF TalkFits, Talking, Pl!Newcomer, RecordFits

\* The polls begin with nobody recorded and nothing paid.
LEMMA PollsInit == Pl!Init => PollsInv
  BY BlankFits, NewcomerFits DEF Pl!Init, PollsInv, TalkFits, RecordFits

\* A session that goes on to what fits, and perhaps saves its record, keeps the invariant.
LEMMA TalkGoes ==
  ASSUME PollsInv, NEW s \in Callers, NEW t, TalkFits(s, t),
         talk' = [talk EXCEPT ![s] = t], payments' = payments,
         users' = users \/ users' = [users EXCEPT ![VoterOf[s]] = t.copy]
  PROVE  PollsInv'
  <1>1. \A u, r : RecordFits(u, r)' <=> RecordFits(u, r)
    BY DEF RecordFits, Pl!Weighed
  <1>2. \A c, v : TalkFits(c, v)' <=> TalkFits(c, v)
    BY <1>1 DEF TalkFits
  <1>3. talk' \in [Callers -> Talking] /\ \A c \in Callers : TalkFits(c, talk'[c])
    BY DEF PollsInv, TalkFits
  <1>4. users' \in [Voters -> Pl!Record] /\ \A u \in Voters : RecordFits(u, users'[u])
    BY PollsConstants DEF PollsInv, TalkFits, RecordFits
  <1> QED
    BY <1>1, <1>2, <1>3, <1>4 DEF PollsInv

\* A step that leaves the record alone, and does not read.
LEMMA TalkMoves ==
  ASSUME NEW s \in Callers, NEW t, NEW r \in Talking, TalkFits(s, t),
         r.copy = t.copy, r.at # "read"
  PROVE  TalkFits(s, r)
  BY DEF TalkFits

\* A payment leaves what is recorded as it is.
LEMMA PaymentFits ==
  ASSUME PollsInv, NEW s \in Callers, Pl!Payment(s), UNCHANGED <<users, payments>>
  PROVE  PollsInv'
  <1> DEFINE v == talk[s]
             code == IF v.copy.code = Nobody THEN s ELSE v.copy.code
             r == [v.copy EXCEPT !.code = code]
             at == IF v.copy.wallets = {} THEN "pay" ELSE "more"
             t == [v EXCEPT !.at = at, !.copy = r, !.more = FALSE, !.wallet = Nobody]
  <1>1. TalkFits(s, v) /\ v \in Talking
    BY DEF PollsInv
  <1>2. v.copy \in Pl!Record /\ RecordFits(VoterOf[s], v.copy)
    BY <1>1 DEF TalkFits, Talking
  <1>3. talk' = [talk EXCEPT ![s] = t]
    BY ZenonT(60) DEF Pl!Payment
  <1>4. code \in Callers \cup {Nobody} /\ (code # Nobody => VoterOf[code] = VoterOf[s])
    BY <1>2 DEF RecordFits, Pl!Record, Pl!Codes
  <1> HIDE DEF code
  <1>5. r \in Pl!Record /\ r.code = code /\ r.wallets = v.copy.wallets /\ r.tokens = v.copy.tokens
        /\ r.weight = v.copy.weight /\ r.unread = v.copy.unread
    BY <1>2, <1>4 DEF Pl!Record, Pl!Codes
  <1>6. RecordFits(VoterOf[s], r)
    BY <1>2, <1>4, <1>5 DEF RecordFits, Pl!Weighed
  <1>7. at \in {"pay", "more"}
    OBVIOUS
  <1> HIDE DEF r, at, v
  <1>8. t \in Talking /\ t.copy = r /\ t.at = at
    BY <1>1, <1>5, <1>7, Zenon DEF Talking
  <1>9. TalkFits(s, t)
    BY <1>6, <1>7, <1>8 DEF TalkFits
  <1> HIDE DEF t
  <1> QED
    BY <1>3, <1>9, TalkGoes

\* Every step of a session keeps votes weighed.
LEMMA PollsNext ==
  ASSUME PollsInv, [Pl!Next]_(Pl!vars)
  PROVE  PollsInv'
  <1>1. ASSUME NEW s \in Callers
        PROVE  /\ talk[s] \in Talking /\ TalkFits(s, talk[s]) /\ VoterOf[s] \in Voters
               /\ talk[s].copy \in Pl!Record /\ RecordFits(VoterOf[s], talk[s].copy)
               /\ [talk EXCEPT ![s] = talk[s]] = talk
    BY <1>1, PollsConstants DEF PollsInv, TalkFits, Talking
  \* Steps that keep the record and the wallet.
  <1>2. ASSUME NEW s \in Callers, NEW x \in {"pay", "more", "votes", "result", "error", "stopped", "end"},
               Pl!Goes(s, x), UNCHANGED <<users, payments>>
        PROVE  PollsInv'
    <2> DEFINE v == talk[s]
               t == [v EXCEPT !.at = x]
    <2>1. talk' = [talk EXCEPT ![s] = t]
      BY <1>2, Zenon DEF Pl!Goes
    <2>2. v \in Talking /\ TalkFits(s, v)
      BY <1>1
    <2> HIDE DEF v
    <2>3. t \in Talking /\ t.copy = v.copy /\ t.at # "read"
      BY <2>2 DEF Talking
    <2>4. TalkFits(s, t)
      BY <2>2, <2>3, TalkMoves
    <2> HIDE DEF t
    <2> QED  BY <1>2, <2>1, <2>4, TalkGoes
  <1>3. ASSUME NEW s \in Callers, Pl!Initialize(s) PROVE PollsInv'
    <2> DEFINE v == talk[s]
               r == users[VoterOf[s]]
               t == [v EXCEPT !.at = "welcome", !.copy = r]
    <2>1. talk' = [talk EXCEPT ![s] = t]
      BY <1>3, Zenon DEF Pl!Initialize
    <2>2. v \in Talking /\ r \in Pl!Record /\ RecordFits(VoterOf[s], r)
      BY <1>1 DEF PollsInv
    <2> HIDE DEF v, r
    <2>3. t \in Talking /\ t.copy = r /\ t.at = "welcome"
      BY <2>2 DEF Talking
    <2>4. TalkFits(s, t)
      BY <2>2, <2>3 DEF TalkFits
    <2> HIDE DEF t
    <2> QED  BY <1>3, <2>1, <2>4, TalkGoes DEF Pl!Initialize
  <1>4. ASSUME NEW s \in Callers, Pl!EnterPayment(s) PROVE PollsInv'
    BY <1>4, PaymentFits DEF Pl!EnterPayment
  <1>5. ASSUME NEW s \in Callers, Pl!Enough(s) PROVE PollsInv'
    BY <1>5, <1>2 DEF Pl!Enough
  <1>6. ASSUME NEW s \in Callers, Pl!ReadBalance(s) PROVE PollsInv'
    <2> DEFINE v == talk[s]
               c == v.copy
               w == v.wallet
               r == [c EXCEPT !.tokens = c.tokens + Tokens[w], !.unread = c.unread \ {w}]
               t == [v EXCEPT !.at = "pay", !.wallet = Nobody, !.copy = r]
    <2>1. talk' = [talk EXCEPT ![s] = t]
      BY <1>6, Zenon DEF Pl!ReadBalance
    <2>2. users' = [users EXCEPT ![VoterOf[s]] = r]
      BY <1>6, Zenon DEF Pl!ReadBalance, Pl!Saves
    <2>3. v \in Talking /\ c \in Pl!Record /\ RecordFits(VoterOf[s], c) /\ w \in c.wallets \cap c.unread
      BY <1>1, <1>6 DEF Pl!ReadBalance, Pl!At, TalkFits
    <2> HIDE DEF v, c, w
    <2>4. /\ c.wallets \in SUBSET Wallets /\ w \in Wallets /\ c.tokens \in Nat /\ Tokens[w] \in Nat
          /\ c.weight \in Nat /\ c.tokens = Pl!Held(c.wallets \ c.unread) /\ c.weight <= c.tokens
      BY <2>3, PollsConstants DEF Pl!Record, RecordFits, Pl!Weighed, Pl!Most
    <2> DEFINE W == c.wallets \ c.unread
               U == c.unread \ {w}
    <2>5. W \in SUBSET Wallets /\ w \in Wallets \ W /\ W \cup {w} = c.wallets \ U
      BY <2>3, <2>4
    <2> HIDE DEF U
    <2>6. Pl!Held(c.wallets \ U) = c.tokens + Tokens[w] /\ Pl!Held(c.wallets \ U) \in 0 .. Pl!Most
      <3>1. Pl!Held(W \cup {w}) = Pl!Held(W) + Tokens[w]
        BY <2>5, HeldFacts
      <3>2. W \cup {w} \in SUBSET Wallets
        BY <2>5
      <3>3. Pl!Held(W \cup {w}) \in 0 .. Pl!Most
        BY <3>2, HeldFacts
      <3> QED  BY <2>4, <2>5, <3>1, <3>3, Zenon
    <2> HIDE DEF W
    <2>7. r \in Pl!Record /\ r.tokens = c.tokens + Tokens[w] /\ r.unread = U
          /\ r.wallets = c.wallets /\ r.weight = c.weight /\ r.code = c.code
      BY <2>3, <2>6 DEF Pl!Record, U
    <2> HIDE DEF r
    <2>8. RecordFits(VoterOf[s], r)
      <3>1. r.tokens = Pl!Held(r.wallets \ r.unread)
        BY <2>6, <2>7, Zenon
      <3>2. r.weight <= r.tokens
        BY <2>4, <2>7
      <3>3. \A x \in r.wallets : \E d \in Callers : VoterOf[d] = VoterOf[s] /\ <<d, x>> \in payments
        BY <2>3, <2>7 DEF RecordFits, Pl!Weighed
      <3> QED  BY <2>3, <2>7, <3>1, <3>2, <3>3 DEF RecordFits, Pl!Weighed
    <2>9. t \in Talking /\ t.copy = r /\ t.at = "pay"
      BY <2>3, <2>7 DEF Talking
    <2>10. TalkFits(s, t)
      BY <2>8, <2>9 DEF TalkFits
    <2> HIDE DEF t
    <2> QED  BY <1>6, <2>1, <2>2, <2>9, <2>10, TalkGoes DEF Pl!ReadBalance
  <1>7. ASSUME NEW s \in Callers, Pl!StellarFails(s) PROVE PollsInv'
    BY <1>7, <1>2 DEF Pl!StellarFails
  <1>8. ASSUME NEW s \in Callers, Pl!Vote(s) PROVE PollsInv'
    <2> DEFINE v == talk[s]
               c == v.copy
               r == [c EXCEPT !.voted = TRUE, !.weight = c.tokens]
               t == [v EXCEPT !.at = "result", !.copy = r]
    <2>1. talk' = [talk EXCEPT ![s] = t]
      BY <1>8, Zenon DEF Pl!Vote
    <2>2. users' = [users EXCEPT ![VoterOf[s]] = r]
      BY <1>8, Zenon DEF Pl!Vote, Pl!Saves
    <2>3. v \in Talking /\ c \in Pl!Record /\ RecordFits(VoterOf[s], c)
      BY <1>1
    <2> HIDE DEF v, c
    <2>4. c.tokens \in Nat
      BY <2>3, HeldFacts DEF Pl!Record
    <2>5. r \in Pl!Record /\ r.tokens = c.tokens /\ r.unread = c.unread
          /\ r.wallets = c.wallets /\ r.weight = c.tokens /\ r.code = c.code
      BY <2>3 DEF Pl!Record
    <2>6. RecordFits(VoterOf[s], r)
      BY <2>3, <2>4, <2>5 DEF RecordFits, Pl!Weighed
    <2> HIDE DEF r
    <2>7. t \in Talking /\ t.copy = r /\ t.at = "result"
      BY <2>3, <2>5 DEF Talking
    <2>8. TalkFits(s, t)
      BY <2>6, <2>7 DEF TalkFits
    <2> HIDE DEF t
    <2> QED  BY <1>8, <2>1, <2>2, <2>7, <2>8, TalkGoes DEF Pl!Vote
  <1>9. ASSUME NEW s \in Callers, Pl!Disagree(s) PROVE PollsInv'
    BY <1>9, <1>2 DEF Pl!Disagree
  <1>10. ASSUME NEW s \in Callers, Pl!Result(s) PROVE PollsInv'
    BY <1>10, <1>2 DEF Pl!Result
  <1>11. ASSUME NEW s \in Callers, Pl!BackInPayment(s) PROVE PollsInv'
    BY <1>11, PaymentFits DEF Pl!BackInPayment
  <1>12. ASSUME NEW s \in Callers, Pl!BackToVotes(s) PROVE PollsInv'
    BY <1>12, <1>2 DEF Pl!BackToVotes
  <1>13. ASSUME NEW s \in Callers, Pl!Leave(s) PROVE PollsInv'
    <2>1. TalkFits(s, [Pl!Newcomer EXCEPT !.at = "end"])
      BY NewcomerFits
    <2> QED  BY <1>13, <2>1, TalkGoes DEF Pl!Leave
  <1>14. ASSUME NEW s \in Callers, NEW yes \in BOOLEAN, Pl!More(s, yes) PROVE PollsInv'
    <2> DEFINE v == talk[s]
               at == IF yes THEN "pay" ELSE "votes"
               t == [v EXCEPT !.at = at, !.more = FALSE]
    <2>1. talk' = [talk EXCEPT ![s] = t]
      BY <1>14, Zenon DEF Pl!More
    <2>2. v \in Talking /\ TalkFits(s, v)
      BY <1>1
    <2>3. at \in {"pay", "votes"}
      OBVIOUS
    <2> HIDE DEF v, at
    <2>4. t \in Talking /\ t.copy = v.copy /\ t.at = at
      BY <2>2, <2>3 DEF Talking
    <2>5. TalkFits(s, t)
      BY <2>2, <2>3, <2>4, TalkMoves
    <2> HIDE DEF t
    <2> QED  BY <1>14, <2>1, <2>5, TalkGoes DEF Pl!More
  <1>15. ASSUME NEW s \in Callers, NEW w \in Wallets, Pl!Pay(s, w) PROVE PollsInv'
    <2>1. payments' = payments \cup {<<s, w>>} /\ UNCHANGED <<users, talk>>
      BY <1>15 DEF Pl!Pay
    <2>2. \A u, r : RecordFits(u, r) => RecordFits(u, r)'
      BY <2>1 DEF RecordFits, Pl!Weighed
    <2>3. \A c, v : TalkFits(c, v) => TalkFits(c, v)'
      BY <2>2 DEF TalkFits
    <2> QED  BY <2>1, <2>2, <2>3 DEF PollsInv
  <1>16. ASSUME NEW s \in Callers, NEW w \in Wallets, Pl!Look(s, w) PROVE PollsInv'
    <2> DEFINE v == talk[s]
               c == v.copy
    <2>1. v \in Talking /\ TalkFits(s, v) /\ c \in Pl!Record /\ RecordFits(VoterOf[s], c)
          /\ [talk EXCEPT ![s] = v] = talk
      BY <1>1
    <2>2. CASE w \in c.wallets
      <3>1. users' = [users EXCEPT ![VoterOf[s]] = c] /\ UNCHANGED <<talk, payments>>
        BY <1>16, <2>2 DEF Pl!Look, Pl!Saves
      <3> QED  BY <2>1, <3>1, TalkGoes
    <2>3. CASE w \notin c.wallets
      <3> DEFINE r == [c EXCEPT !.wallets = c.wallets \cup {w}, !.unread = c.unread \cup {w}]
                 t == [v EXCEPT !.at = "read", !.wallet = w, !.more = TRUE, !.copy = r]
      <3>1. talk' = [talk EXCEPT ![s] = t]
        <4>1. talk' = [talk EXCEPT ![s].at = "read", ![s].wallet = w, ![s].more = TRUE, ![s].copy = r]
          BY <1>16, <2>3 DEF Pl!Look
        <4> QED  BY <4>1, Zenon
      <3>2. UNCHANGED <<users, payments>> /\ <<c.code, w>> \in payments
        BY <1>16, <2>3 DEF Pl!Look, Pl!Paid
      <3> HIDE DEF v, c
      <3>3. c.code \in Callers /\ VoterOf[c.code] = VoterOf[s]
        BY <2>1, <3>2, PollsConstants DEF PollsInv, RecordFits, Pl!Record, Pl!Codes
      <3>4. r \in Pl!Record /\ r.tokens = c.tokens /\ r.unread = c.unread \cup {w}
            /\ r.wallets = c.wallets \cup {w} /\ r.weight = c.weight /\ r.code = c.code
        BY <2>1 DEF Pl!Record
      <3>5. r.wallets \ r.unread = c.wallets \ c.unread
        BY <2>3, <3>4
      <3>6. Pl!Weighed(VoterOf[s], r)
        BY <2>1, <3>2, <3>3, <3>4, <3>5 DEF RecordFits, Pl!Weighed
      <3>7. RecordFits(VoterOf[s], r)
        BY <2>1, <3>4, <3>6 DEF RecordFits
      <3>8. w \in r.wallets \cap r.unread
        BY <3>4
      <3> HIDE DEF r
      <3>9. t \in Talking /\ t.copy = r /\ t.at = "read" /\ t.wallet = w
        BY <2>1, <3>4 DEF Talking
      <3>10. TalkFits(s, t)
        BY <3>7, <3>8, <3>9 DEF TalkFits
      <3> HIDE DEF t
      <3> QED  BY <3>1, <3>2, <3>10, TalkGoes
    <2> QED  BY <2>2, <2>3
  <1>17. CASE UNCHANGED Pl!vars
    BY <1>17 DEF Pl!vars, PollsInv, TalkFits, RecordFits, Pl!Weighed
  <1> QED  BY <1>3, <1>4, <1>5, <1>6, <1>7, <1>8, <1>9, <1>10, <1>11, <1>12, <1>13, <1>14, <1>15,
              <1>16, <1>17 DEF Pl!Next

\* The behaviours of Server are behaviours of Polls.
LEMMA PollsSteps == Spec => Pl!Spec
  <1>1. Init => Pl!Init
    BY DEF Init
  <1>2. [Next]_vars => [Pl!Next]_(Pl!vars)
    BY DEF Next, vars, PackagesRuns, BackupRuns, CrontabRuns, NoticesRuns, MailsRuns,
       IdentityRuns, WalletsRuns, LoginRuns, CertificatesRuns, PollsRuns, pollsVars, Pl!vars
  <1> QED  BY <1>1, <1>2, PTL DEF Spec, Pl!Spec

\* The polls keep their invariant.
LEMMA VotesKept == Spec => []PollsInv
  BY PollsInit, PollsNext, PollsSteps, PTL DEF Pl!Spec

\* What the invariant says of records and payments.
LEMMA PollsTyped == PollsInv => Pl!TypeOK /\ Pl!VotesWeighed
  BY PollsConstants DEF PollsInv, Pl!TypeOK, Pl!VotesWeighed, Talking, TalkFits, RecordFits

-----------------------------------------------------------------------------
(* Types.                                                                  *)

\* A count that a fetch asks for is at most what there may be, or one more than a page.
NoticesTyped ==
    /\ fetcher \in [Callers -> [at : {"idle", "all", "move", "clear"},
                                n : 0 .. MaxNotices + Page + 1]]
    /\ reachable \in BOOLEAN

\* A list in which no notice is twice is no longer than there are notices.
LEMMA OnceIsShort ==
  ASSUME NEW s \in Seq(Nat), NEW n \in Nat, Once(s), Entries(s) \subseteq 1 .. n
  PROVE  Len(s) <= n
  <1>1. s \in [1 .. Len(s) -> 1 .. n] /\ Len(s) \in Nat
    BY DEF Entries
  <1>2. \A i, j \in 1 .. Len(s) : s[i] = s[j] => i = j
    BY DEF Once
  <1>3. \A k \in Nat : IsFiniteSet(1 .. k) /\ Cardinality(1 .. k) = k
    <2> SUFFICES ASSUME NEW k \in Nat PROVE IsFiniteSet(1 .. k) /\ Cardinality(1 .. k) = k
      OBVIOUS
    <2>1. IsFiniteSet(1 .. k) /\ Cardinality(1 .. k) = IF 1 > k THEN 0 ELSE k - 1 + 1
      BY FS_Interval
    <2> QED  BY <2>1
  <1>4. CASE n < Len(s)
    <2>1. \E i, j \in 1 .. Len(s) : i # j /\ s[i] = s[j]
      <3>1. /\ IsFiniteSet(1 .. Len(s)) /\ IsFiniteSet(1 .. n)
            /\ Cardinality(1 .. n) < Cardinality(1 .. Len(s))
        BY <1>1, <1>3, <1>4
      <3> QED  BY <1>1, <3>1, FS_PigeonHole
    <2> QED  BY <1>2, <2>1
  <1> QED  BY <1>1, <1>4

\* The queue is never longer than the notices there may be.
LEMMA QueueIsShort == NoticesInv => Len(queue) \in 0 .. MaxNotices
  <1> SUFFICES ASSUME NoticesInv PROVE Len(queue) \in 0 .. MaxNotices
    OBVIOUS
  <1>1. /\ queue \in Seq(Nat) /\ old \in Seq(Nat) /\ drawn \in 0 .. MaxNotices
        /\ Entries(queue) \subseteq 1 .. drawn /\ Once(Line)
    BY DEF NoticesInv
  <1>2. MaxNotices \in Nat /\ drawn \in Nat /\ drawn <= MaxNotices
    BY <1>1, ServerAssumption DEF ServerAssumption, Nt!NoticesAssumption
  <1>3. /\ Line \in Seq(Nat) /\ Len(queue) <= Len(Line)
        /\ \A i \in 1 .. Len(queue) : Line[i] = queue[i]
    BY <1>1, LineHolds DEF Line
  <1>4. Once(queue)
    <2>1. /\ DOMAIN queue = 1 .. Len(queue) /\ DOMAIN Line = 1 .. Len(Line)
          /\ Len(queue) \in Nat /\ Len(Line) \in Nat
      BY <1>1, <1>3
    <2>2. \A i \in DOMAIN queue : i \in DOMAIN Line /\ queue[i] = Line[i]
      BY <1>3, <2>1
    <2> QED  BY <1>1, <2>2 DEF Once
  <1>5. Len(queue) <= drawn
    BY <1>1, <1>2, <1>4, OnceIsShort
  <1> QED  BY <1>1, <1>2, <1>5

\* The calls of the notifications keep to their stages and counts.
LEMMA NoticesStayTyped ==
  ASSUME NoticesInv, NoticesTyped, [Nt!Next]_(Nt!vars)
  PROVE  NoticesTyped'
  <1> DEFINE Steps == [at : {"idle", "all", "move", "clear"}, n : 0 .. MaxNotices + Page + 1]
  <1>0. MaxNotices \in Nat /\ Page \in Nat /\ Len(queue) \in 0 .. MaxNotices
    BY QueueIsShort, ServerAssumption DEF ServerAssumption, Nt!NoticesAssumption
  <1>1. /\ [at |-> "all", n |-> 0] \in Steps /\ [at |-> "move", n |-> Page] \in Steps
        /\ [at |-> "move", n |-> Len(queue)] \in Steps /\ Nt!Idle \in Steps
        /\ \A n \in 0 .. Page + 1 : [at |-> "move", n |-> n] \in Steps
    BY <1>0 DEF Nt!Idle
  <1>2. fetcher \in [Callers -> Steps] /\ reachable \in BOOLEAN
    BY DEF NoticesTyped
  <1>3. \A s \in Steps : [s EXCEPT !.at = "clear"] \in Steps
    OBVIOUS
  <1> HIDE DEF Steps
  <1>4. CASE UNCHANGED Nt!vars
    BY <1>4 DEF Nt!vars, NoticesTyped
  <1>5. CASE Nt!Push \/ Nt!Kill \/ (\E told \in BOOLEAN : Nt!StellarJob(told))
             \/ (\E i \in Nt!Ids : Nt!PushPut(i))
    <2>1. fetcher' = fetcher \/ fetcher' = [f \in Callers |-> Nt!Idle]
      BY <1>5 DEF Nt!Push, Nt!Kill, Nt!StellarJob, Nt!PushPut
    <2>2. reachable' \in BOOLEAN
      BY <1>2, <1>5 DEF Nt!Push, Nt!Kill, Nt!StellarJob, Nt!PushPut
    <2> QED  BY <1>1, <1>2, <2>1, <2>2 DEF NoticesTyped, Steps
  <1>6. ASSUME NEW f \in Callers,
               \/ Nt!Ask(f) \/ Nt!Count(f) \/ Nt!Clear(f) \/ Nt!ClearOld(f)
               \/ \E n \in 0 .. Page + 1 : Nt!Fetch(f, n)
               \/ \E answered \in BOOLEAN : Nt!Move(f, answered)
        PROVE  NoticesTyped'
    <2>1. reachable' = reachable
      BY <1>6 DEF Nt!Ask, Nt!Count, Nt!Clear, Nt!ClearOld, Nt!Fetch, Nt!Move
    <2>2. \E s \in Steps : fetcher' = [fetcher EXCEPT ![f] = s]
      <3>1. CASE Nt!Ask(f)
        BY <1>1, <3>1 DEF Nt!Ask
      <3>2. CASE Nt!Count(f)
        BY <1>1, <3>2 DEF Nt!Count
      <3>3. CASE Nt!Clear(f)
        <4>1. fetcher[f] \in Steps
          BY <1>2
        <4>2. fetcher' = [fetcher EXCEPT ![f] = [fetcher[f] EXCEPT !.at = "clear"]]
          BY <3>3 DEF Nt!Clear
        <4> QED  BY <1>3, <4>1, <4>2
      <3>4. CASE Nt!ClearOld(f)
        BY <1>1, <3>4 DEF Nt!ClearOld
      <3>5. CASE \E n \in 0 .. Page + 1 : Nt!Fetch(f, n)
        BY <1>1, <3>5 DEF Nt!Fetch
      <3>6. CASE \E answered \in BOOLEAN : Nt!Move(f, answered)
        BY <1>1, <3>6 DEF Nt!Move
      <3> QED  BY <1>6, <3>1, <3>2, <3>3, <3>4, <3>5, <3>6
    <2>3. fetcher' \in [Callers -> Steps]
      BY <1>2, <2>2
    <2> QED  BY <1>2, <2>1, <2>3 DEF NoticesTyped, Steps
  <1> QED  BY <1>4, <1>5, <1>6 DEF Nt!Next

\* The variables of the notifications keep their types.
LEMMA NoticesTypes == Spec => []Nt!TypeOK
  <1>1. Nt!Init => NoticesTyped
    <2>1. 0 \in 0 .. MaxNotices + Page + 1
      BY ServerAssumption DEF ServerAssumption, Nt!NoticesAssumption
    <2> QED  BY <2>1 DEF Nt!Init, NoticesTyped, Nt!Idle
  <1>2. NoticesInv /\ NoticesTyped => Nt!TypeOK
    <2> SUFFICES ASSUME NoticesInv, NoticesTyped PROVE Nt!TypeOK
      OBVIOUS
    <2>1. /\ drawn \in 0 .. MaxNotices /\ queue \in Seq(Nat) /\ old \in Seq(Nat)
          /\ Entries(queue) \subseteq 1 .. drawn /\ Entries(old) \subseteq 1 .. drawn
          /\ held \subseteq 1 .. drawn /\ shown \subseteq 1 .. drawn /\ dropped \subseteq 1 .. drawn
      BY DEF NoticesInv, Settled
    <2>2. 1 .. drawn \subseteq Nt!Ids
      BY <2>1, ServerAssumption DEF ServerAssumption, Nt!NoticesAssumption, Nt!Ids
    <2>3. ASSUME NEW s \in Seq(Nat), Entries(s) \subseteq Nt!Ids PROVE s \in Seq(Nt!Ids)
      BY <2>3 DEF Entries
    <2> QED  BY <2>1, <2>2, <2>3 DEF NoticesTyped, Nt!TypeOK
  <1> QED
    BY <1>1, <1>2, NoticesInit, NoticesNext, NoticesStayTyped, NoticesSteps, PTL DEF Nt!Spec

-----------------------------------------------------------------------------
\* The addresses, and what a call has read of them, are addresses.
MailsTyped ==
    /\ escalation \subseteq Emails
    /\ copy \in [Callers -> {Ml!None} \cup SUBSET Emails]

\* The variables of the mails keep their types.
LEMMA MailsTypes == Spec => []Ml!TypeOK
  <1>1. Ml!Init => MailsTyped
    BY DEF Ml!Init, MailsTyped
  <1>2. MailsTyped /\ [Ml!Next]_(Ml!vars) => MailsTyped'
    <2> SUFFICES ASSUME MailsTyped, [Ml!Next]_(Ml!vars) PROVE MailsTyped'
      OBVIOUS
    <2>1. ASSUME NEW a \in Callers, Ml!ReadEmails(a) PROVE MailsTyped'
      BY <2>1 DEF Ml!ReadEmails, MailsTyped
    <2>2. ASSUME NEW a \in Callers, Ml!WriteEmails(a) PROVE MailsTyped'
      BY <2>2 DEF Ml!WriteEmails, MailsTyped
    <2>3. CASE Ml!Report
      BY <2>3 DEF Ml!Report, MailsTyped
    <2>4. CASE Ml!Kill
      BY <2>4 DEF Ml!Kill, MailsTyped
    <2>5. ASSUME NEW n \in Callers, Ml!Take(n) \/ (\E ok \in BOOLEAN : Ml!Send(n, ok)) PROVE MailsTyped'
      BY <2>5 DEF Ml!Take, Ml!Send, MailsTyped
    <2>6. CASE UNCHANGED Ml!vars
      BY <2>6 DEF Ml!vars, MailsTyped
    <2> QED  BY <2>1, <2>2, <2>3, <2>4, <2>5, <2>6 DEF Ml!Next
  <1>3. MailsInv /\ MailsTyped => Ml!TypeOK
    BY DEF MailsInv, MailsTyped, Ml!TypeOK
  <1> QED  BY <1>1, <1>2, <1>3, MailsInit, MailsNext, MailsSteps, PTL DEF Ml!Spec

\* The variables of the identities keep their types.
LEMMA IdentityTypes == Spec => []Id!TypeOK
  <1>1. IdentityInv => Id!TypeOK
    BY DEF IdentityInv
  <1> QED  BY <1>1, IdentityInit, IdentityNext, IdentitySteps, PTL DEF Id!Spec

\* The variables of the packages keep their types.
LEMMA PackagesTypes == Spec => []Pk!TypeOK
  <1>1. PackagesInv => Pk!TypeOK
    BY DEF PackagesInv, InOrder
  <1>2. PackagesInv /\ [Pk!Next]_(Pk!vars) => PackagesInv'
    BY PackagesNext DEF packagesVars, Pk!vars
  <1> QED  BY <1>1, <1>2, PackagesInit, PackagesSteps, PTL DEF Pk!Spec

\* The variables of the polls keep their types.
LEMMA PollsTypes == Spec => []Pl!TypeOK
  BY VotesKept, PollsTyped, PTL

-----------------------------------------------------------------------------
\* Who makes or changes a wallet has one; what is activated, stored or given is one.
WalletCalls ==
    [at : {"idle", "activate", "trust", "fund activate", "fund trust", "fund", "import", "update"},
     wallet : {Wl!None} \cup Wl!Made, tries : 0 .. Tries, alone : BOOLEAN]
WalletsTyped ==
    /\ memory \in {Wl!None} \cup Wl!Made /\ store \in {Wl!None} \cup Wl!Made
    /\ wallets \in 0 .. MaxWallets
    /\ call \in [Callers -> WalletCalls]
    /\ \A c \in Callers : call[c].at # "idle" => call[c].wallet \in Wl!Made
    /\ activated \subseteq Wl!Made /\ kept \subseteq Wl!Made

\* The calls to the wallets keep to the wallets that there are.
LEMMA WalletsStayTyped ==
  ASSUME WalletsTyped, [Wl!Next]_(Wl!vars)
  PROVE  WalletsTyped'
  <1>0. /\ MaxWallets \in Nat /\ Tries \in Nat /\ Wl!Made = 1 .. MaxWallets /\ Wl!None = 0
        /\ call \in [Callers -> WalletCalls] /\ wallets \in 0 .. MaxWallets
        /\ \A c \in Callers : /\ call[c] \in WalletCalls
                               /\ call[c].at # "idle" => call[c].wallet \in Wl!Made
    BY ServerAssumption DEF ServerAssumption, Wl!WalletsAssumption, WalletsTyped, Wl!Made, Wl!None
  \* The new calls: what each caller has is one, and has a wallet if it is busy.
  <1>1. ASSUME NEW c \in Callers, NEW r \in WalletCalls, r.at # "idle" => r.wallet \in Wl!Made,
               call' = [call EXCEPT ![c] = r] \/ Wl!Disturbs(c, r)
        PROVE  /\ call' \in [Callers -> WalletCalls]
               /\ \A d \in Callers : call'[d].at # "idle" => call'[d].wallet \in Wl!Made
    <2>1. CASE call' = [call EXCEPT ![c] = r]
      BY <1>0, <1>1, <2>1
    <2>2. CASE Wl!Disturbs(c, r)
      <3>1. \A d \in Callers : /\ [call[d] EXCEPT !.alone = FALSE] \in WalletCalls
                               /\ [call[d] EXCEPT !.alone = FALSE].at = call[d].at
                               /\ [call[d] EXCEPT !.alone = FALSE].wallet = call[d].wallet
        BY <1>0 DEF WalletCalls
      <3>2. \A d \in Callers : \/ call'[d] = r \/ call'[d] = call[d]
                               \/ call'[d] = [call[d] EXCEPT !.alone = FALSE]
        BY <2>2 DEF Wl!Disturbs
      <3>3. \A d \in Callers : /\ call'[d] \in WalletCalls
                               /\ call'[d].at # "idle" => call'[d].wallet \in Wl!Made
        BY <1>0, <1>1, <3>1, <3>2
      <3>4. call' = [d \in Callers |-> call'[d]]
        BY <2>2 DEF Wl!Disturbs
      <3> QED  BY <3>3, <3>4
    <2> QED  BY <1>1, <2>1, <2>2
  <1>2. Wl!Idle \in WalletCalls /\ Wl!Idle.at = "idle"
    <2>1. 0 \in 0 .. Tries
      BY <1>0
    <2> QED  BY <2>1 DEF Wl!Idle, WalletCalls
  \* A call that goes on to another stage, or has one try less, has the same wallet.
  <1>3. ASSUME NEW c \in Callers, NEW x \in {"trust", "fund trust", "fund"}, call[c].at # "idle"
        PROVE  /\ [call[c] EXCEPT !.at = x] \in WalletCalls
               /\ [call[c] EXCEPT !.at = x].wallet \in Wl!Made
    BY <1>0, <1>3 DEF WalletCalls
  <1>4. ASSUME NEW c \in Callers, call[c].at # "idle", call[c].tries > 1
        PROVE  /\ [call[c] EXCEPT !.tries = @ - 1] \in WalletCalls
               /\ [call[c] EXCEPT !.tries = @ - 1].wallet \in Wl!Made
    <2> DEFINE tries == call[c].tries
    <2>0. tries \in 0 .. Tries /\ tries > 1
      BY <1>0, <1>4 DEF WalletCalls
    <2> HIDE DEF tries
    <2>1. tries - 1 \in 0 .. Tries
      BY <1>0, <2>0
    <2>2. call[c] \in WalletCalls /\ call[c].wallet \in Wl!Made
      BY <1>0, <1>4
    <2> QED  BY <2>1, <2>2 DEF WalletCalls, tries
  <1>5. ASSUME NEW c \in Callers, call[c].at # "idle",
               Wl!Given(c) \/ Wl!Kept(c) \/ kept' = kept
        PROVE  kept' \subseteq Wl!Made
    BY <1>0, <1>5 DEF Wl!Given, Wl!Kept, WalletsTyped
  \* The call ends, and takes the wallet away that has the name.
  <1>6. ASSUME NEW c \in Callers, Wl!Delete(c), kept' \subseteq Wl!Made,
               UNCHANGED <<wallets, activated>>
        PROVE  WalletsTyped'
    <2>1. memory' = Wl!None /\ store' = Wl!None /\ Wl!Disturbs(c, Wl!Idle)
      BY <1>6 DEF Wl!Delete
    <2>2. /\ call' \in [Callers -> WalletCalls]
          /\ \A d \in Callers : call'[d].at # "idle" => call'[d].wallet \in Wl!Made
      BY <1>1, <1>2, <2>1
    <2> QED  BY <1>6, <2>1, <2>2 DEF WalletsTyped
  <1>7. ASSUME NEW c \in Callers, Wl!DeleteOwn(c), call[c].at # "idle",
               UNCHANGED <<wallets, activated>>
        PROVE  WalletsTyped'
    BY <1>5, <1>6, <1>7 DEF Wl!DeleteOwn
  \* A wallet is made for a call.
  <1>8. ASSUME NEW c \in Callers, NEW x, x \in {"activate", "fund activate", "import"},
               Wl!New(c, x), UNCHANGED <<store, activated, kept>>
        PROVE  WalletsTyped'
    <2> DEFINE r == [at |-> x, wallet |-> wallets + 1, tries |-> Tries, alone |-> TRUE]
    <2>0. wallets < MaxWallets /\ wallets' = wallets + 1 /\ memory' = wallets + 1
          /\ call' = [call EXCEPT ![c] = r]
      BY <1>8 DEF Wl!New
    <2> DEFINE w == wallets + 1
    <2>1. w \in Wl!Made /\ wallets' \in 0 .. MaxWallets /\ memory' \in Wl!Made
      <3>1. wallets \in Nat /\ wallets < MaxWallets /\ MaxWallets \in Nat
        BY <1>0, <2>0
      <3>2. wallets + 1 \in 1 .. MaxWallets /\ wallets + 1 \in 0 .. MaxWallets
        BY <3>1
      <3> QED  BY <1>0, <2>0, <3>2
    <2> HIDE DEF w
    <2>5. Tries \in Nat /\ Tries \in 0 .. Tries
      BY <1>0
    <2>2. r \in WalletCalls /\ r.wallet \in Wl!Made
      BY <1>8, <2>1, <2>5 DEF WalletCalls, w
    <2>3. call' = [call EXCEPT ![c] = r]
      BY <2>0
    <2> HIDE DEF r
    <2>4. /\ call' \in [Callers -> WalletCalls]
          /\ \A d \in Callers : call'[d].at # "idle" => call'[d].wallet \in Wl!Made
      BY <1>1, <2>2, <2>3
    <2> QED  BY <1>8, <2>1, <2>4 DEF WalletsTyped
  \* The wallet of a call is stored.
  <1>9. ASSUME NEW c \in Callers, NEW r \in WalletCalls, r.at # "idle" => r.wallet \in Wl!Made,
               Wl!Save(c, r), kept' \subseteq Wl!Made, UNCHANGED <<memory, wallets, activated>>,
               call[c].at # "idle"
        PROVE  WalletsTyped'
    <2>1. store' \in Wl!Made
      BY <1>0, <1>9 DEF Wl!Save
    <2>2. call' = [call EXCEPT ![c] = r] \/ Wl!Disturbs(c, r)
      BY <1>9 DEF Wl!Save
    <2>3. /\ call' \in [Callers -> WalletCalls]
          /\ \A d \in Callers : call'[d].at # "idle" => call'[d].wallet \in Wl!Made
      BY <1>1, <1>9, <2>2
    <2> QED  BY <1>9, <2>1, <2>3 DEF WalletsTyped
  \* A call goes on, and its wallet may be activated or given.
  <1>10. ASSUME NEW c \in Callers, NEW r \in WalletCalls, r.at # "idle" => r.wallet \in Wl!Made,
                call' = [call EXCEPT ![c] = r], UNCHANGED <<memory, store, wallets>>,
                activated' \subseteq Wl!Made, kept' \subseteq Wl!Made
         PROVE  WalletsTyped'
    <2>1. /\ call' \in [Callers -> WalletCalls]
          /\ \A d \in Callers : call'[d].at # "idle" => call'[d].wallet \in Wl!Made
      BY <1>1, <1>10
    <2> QED  BY <1>10, <2>1 DEF WalletsTyped
  <1>11. ASSUME NEW c \in Callers, NEW testnet \in BOOLEAN, Wl!Create(c, testnet) PROVE WalletsTyped'
    <2>1. Wl!New(c, "fund activate") \/ Wl!New(c, "activate")
      BY <1>11 DEF Wl!Create
    <2> QED  BY <1>8, <1>11, <2>1 DEF Wl!Create
  <1>12. ASSUME NEW c \in Callers, Wl!Activate(c) PROVE WalletsTyped'
    <2>1. call[c].at # "idle" /\ activated' \subseteq Wl!Made
      BY <1>0, <1>12 DEF Wl!Activate, WalletsTyped
    <2>2. \E x \in {"trust", "fund trust"} : call' = [call EXCEPT ![c] = [call[c] EXCEPT !.at = x]]
      BY <1>12 DEF Wl!Activate, Wl!Goes
    <2> QED  BY <1>3, <1>10, <1>12, <2>1, <2>2 DEF Wl!Activate, WalletsTyped
  <1>13. ASSUME NEW c \in Callers, Wl!ActivateFails(c) \/ Wl!ActivateLost(c) PROVE WalletsTyped'
    <2>1. call[c].at # "idle"
      BY <1>13 DEF Wl!ActivateFails, Wl!ActivateLost, Wl!At
    <2>2. CASE Wl!DeleteOwn(c) /\ UNCHANGED <<wallets, activated>>
      BY <1>7, <2>1, <2>2
    <2>3. CASE ~(Wl!DeleteOwn(c) /\ UNCHANGED <<wallets, activated>>)
      <3>1. /\ call[c].tries > 1 /\ UNCHANGED <<memory, store, wallets, kept>>
            /\ call' = [call EXCEPT ![c] = [call[c] EXCEPT !.tries = @ - 1]]
            /\ activated' \in {activated, activated \cup {call[c].wallet}}
        BY <1>13, <2>3 DEF Wl!ActivateFails, Wl!ActivateLost
      <3>2. activated' \subseteq Wl!Made /\ kept' \subseteq Wl!Made
        BY <1>0, <2>1, <3>1 DEF WalletsTyped
      <3> QED  BY <1>4, <1>10, <2>1, <3>1, <3>2
    <2> QED  BY <2>2, <2>3
  <1>14. ASSUME NEW c \in Callers, Wl!Trust(c) PROVE WalletsTyped'
    <2>1. call[c].at # "idle" /\ kept' \subseteq Wl!Made
      BY <1>5, <1>14 DEF Wl!Trust, Wl!At
    <2>2. Wl!Save(c, Wl!Idle) \/ Wl!Save(c, [call[c] EXCEPT !.at = "fund"])
      BY <1>14 DEF Wl!Trust
    <2> QED  BY <1>2, <1>3, <1>9, <1>14, <2>1, <2>2 DEF Wl!Trust
  <1>15. ASSUME NEW c \in Callers, Wl!Funded(c) PROVE WalletsTyped'
    BY <1>2, <1>5, <1>10, <1>15 DEF Wl!Funded, Wl!At, WalletsTyped
  <1>16. ASSUME NEW c \in Callers, Wl!Reverts(c) PROVE WalletsTyped'
    BY <1>7, <1>16 DEF Wl!Reverts
  <1>17. ASSUME NEW c \in Callers, Wl!Import(c) PROVE WalletsTyped'
    BY <1>6, <1>8, <1>17 DEF Wl!Import, WalletsTyped
  <1>18. ASSUME NEW c \in Callers, NEW ok \in BOOLEAN, Wl!ImportEnds(c, ok) PROVE WalletsTyped'
    <2>1. call[c].at # "idle"
      BY <1>18 DEF Wl!ImportEnds, Wl!At
    <2> QED  BY <1>2, <1>5, <1>7, <1>9, <1>18, <2>1 DEF Wl!ImportEnds
  <1>19. ASSUME NEW c \in Callers, Wl!Update(c) PROVE WalletsTyped'
    <2> DEFINE r == [Wl!Idle EXCEPT !.at = "update", !.wallet = Wl!The]
    <2>1. Wl!The \in Wl!Made
      BY <1>0, <1>19 DEF Wl!Update, Wl!Found, Wl!The, WalletsTyped
    <2> DEFINE w == Wl!The
    <2>2. r \in WalletCalls /\ r.wallet \in Wl!Made
      <3>1. w \in Wl!Made
        BY <2>1
      <3> HIDE DEF w
      <3>2. Wl!Idle \in WalletCalls
        BY <1>2
      <3>3. r = [Wl!Idle EXCEPT !.at = "update", !.wallet = w]
        BY DEF w
      <3> HIDE DEF r
      <3> QED  BY <3>1, <3>2, <3>3 DEF WalletCalls
    <2>3. call' = [call EXCEPT ![c] = r]
      BY <1>19 DEF Wl!Update
    <2> HIDE DEF r
    <2> QED  BY <1>10, <1>19, <2>2, <2>3 DEF Wl!Update, WalletsTyped
  <1>20. ASSUME NEW c \in Callers, NEW ok \in BOOLEAN, Wl!UpdateEnds(c, ok) PROVE WalletsTyped'
    <2>1. call[c].at # "idle" /\ kept' \subseteq Wl!Made
      BY <1>5, <1>20 DEF Wl!UpdateEnds, Wl!At
    <2>2. CASE ok
      BY <1>2, <1>9, <1>20, <2>1, <2>2 DEF Wl!UpdateEnds
    <2>3. CASE ~ok
      BY <1>2, <1>10, <1>20, <2>1, <2>3 DEF Wl!UpdateEnds, WalletsTyped
    <2> QED  BY <2>2, <2>3
  <1>21. ASSUME NEW c \in Callers, Wl!DeleteWallet(c) PROVE WalletsTyped'
    BY <1>6, <1>21 DEF Wl!DeleteWallet
  <1>22. CASE Wl!Kill
    BY <1>2, <1>22 DEF Wl!Kill, WalletsTyped
  <1>23. CASE UNCHANGED Wl!vars
    BY <1>23 DEF Wl!vars, WalletsTyped
  <1> QED
    BY <1>11, <1>12, <1>13, <1>14, <1>15, <1>16, <1>17, <1>18, <1>19, <1>20, <1>21, <1>22, <1>23
    DEF Wl!Next

\* The variables of the wallets keep their types.
LEMMA WalletsTypes == Spec => []Wl!TypeOK
  <1>1. Wl!Init => WalletsTyped
    <2>1. MaxWallets \in Nat /\ Tries \in Nat
      BY ServerAssumption DEF ServerAssumption, Wl!WalletsAssumption
    <2>2. Wl!Idle \in WalletCalls /\ Wl!Idle.at = "idle"
      BY <2>1 DEF Wl!Idle, WalletCalls
    <2> QED  BY <2>1, <2>2 DEF Wl!Init, WalletsTyped, Wl!None
  <1>2. WalletsTyped => Wl!TypeOK
    BY DEF WalletsTyped, WalletCalls, Wl!TypeOK
  <1> QED  BY <1>1, <1>2, WalletsStayTyped, WalletsSteps, PTL DEF Wl!Spec

-----------------------------------------------------------------------------
\* Certbot is asked for nothing, or for a website and some tries more.
Asked ==
    {a \in [website : SUBSET Websites, tries : 1 .. 6] : \E w \in Websites : a.website = {w}}
CertificatesTyped ==
    /\ served \in [Websites -> {"none", "selfsigned", "own", "managed"}]
    /\ managed \subseteq Websites /\ age \in [Websites -> 0 .. Life]
    /\ todo \subseteq Websites
    /\ running \in BOOLEAN /\ found \in BOOLEAN /\ smooth \in BOOLEAN /\ renewed \in BOOLEAN
    /\ attempt \in Asked \cup {Ce!Nothing}

\* What certbot is asked for and what is left of its tries keep their types, and so does
\* the age of a certificate.
LEMMA CertificatesStayTyped ==
  ASSUME CertificatesTyped, [Ce!Next]_(Ce!vars)
  PROVE  CertificatesTyped'
  <1>0. Life \in Nat /\ 0 \in 0 .. Life
    BY ServerAssumption DEF ServerAssumption, Ce!CertificatesAssumption
  <1>1. \A w \in Websites : [website |-> {w}, tries |-> Ce!Retries] \in Asked
    BY DEF Asked, Ce!Retries
  <1>2. ASSUME NEW w \in Websites, Ce!Obtain(w) PROVE CertificatesTyped'
    <2>1. age' \in [Websites -> 0 .. Life]
      BY <1>0, <1>2 DEF CertificatesTyped, Ce!Obtain
    <2> QED  BY <1>2, <2>1 DEF CertificatesTyped, Ce!Obtain
  <1>3. ASSUME NEW w \in Websites, NEW own \in BOOLEAN, Ce!Configure(w, own) PROVE CertificatesTyped'
    <2>1. attempt' \in Asked \cup {Ce!Nothing}
      BY <1>1, <1>3 DEF CertificatesTyped, Ce!Configure
    <2>2. served' \in [Websites -> {"none", "selfsigned", "own", "managed"}]
      BY <1>3 DEF CertificatesTyped, Ce!Configure
    <2> QED  BY <1>3, <2>1, <2>2 DEF CertificatesTyped, Ce!Configure
  <1>4. ASSUME NEW w \in Websites, NEW checked \in BOOLEAN, Ce!Look(w, checked) PROVE CertificatesTyped'
    <2>1. attempt' \in Asked \cup {Ce!Nothing}
      BY <1>1, <1>4 DEF CertificatesTyped, Ce!Look
    <2>2. smooth' \in BOOLEAN
      BY <1>4, Zenon DEF CertificatesTyped, Ce!Look
    <2>3. found' \in BOOLEAN
      BY <1>4, Zenon DEF CertificatesTyped, Ce!Look
    <2>4. todo' \subseteq Websites /\ UNCHANGED <<served, managed, age, running, renewed>>
      BY <1>4 DEF CertificatesTyped, Ce!Look
    <2> QED  BY <2>1, <2>2, <2>3, <2>4 DEF CertificatesTyped
  <1>5. CASE Ce!ObtainFails
    <2>1. attempt \in Asked /\ attempt.tries \in 1 .. 6
      BY <1>5 DEF Ce!ObtainFails, Ce!Free, CertificatesTyped, Asked
    <2>2. attempt.tries # 1 => attempt.tries - 1 \in 1 .. 6
      BY <2>1
    <2>3. \/ attempt' = Ce!Nothing
          \/ attempt.tries # 1 /\ attempt' = [attempt EXCEPT !.tries = attempt.tries - 1]
      BY <1>5 DEF Ce!ObtainFails
    <2>4. ASSUME NEW n \in 1 .. 6 PROVE [attempt EXCEPT !.tries = n] \in Asked
      BY <2>1 DEF Asked
    <2>5. attempt' \in Asked \cup {Ce!Nothing}
      BY <2>2, <2>3, <2>4
    <2> QED  BY <1>5, <2>5 DEF CertificatesTyped, Ce!ObtainFails
  <1>6. CASE Ce!StartJob \/ Ce!JobFails
    BY <1>6 DEF CertificatesTyped, Ce!StartJob, Ce!JobFails
  <1>7. CASE Ce!NextDay
    <2>1. \A w \in Websites : age[w] < Life => age[w] + 1 \in 0 .. Life
      BY <1>0 DEF CertificatesTyped
    <2>2. age' \in [Websites -> 0 .. Life]
      BY <1>7, <2>1 DEF CertificatesTyped, Ce!NextDay
    <2> QED  BY <1>7, <2>2 DEF CertificatesTyped, Ce!NextDay
  <1>8. ASSUME NEW ok \in BOOLEAN, Ce!EndJob(ok) PROVE CertificatesTyped'
    <2>1. age' \in [Websites -> 0 .. Life]
      BY <1>0, <1>8 DEF CertificatesTyped, Ce!EndJob
    <2>2. renewed' \in BOOLEAN
      BY <1>8, Zenon DEF CertificatesTyped, Ce!EndJob
    <2> QED  BY <1>8, <2>1, <2>2 DEF CertificatesTyped, Ce!EndJob
  <1>9. CASE UNCHANGED Ce!vars
    BY <1>9 DEF Ce!vars, CertificatesTyped
  <1> QED  BY <1>2, <1>3, <1>4, <1>5, <1>6, <1>7, <1>8, <1>9 DEF Ce!Next

\* The variables of the certificates keep their types.
LEMMA CertificatesTypes == Spec => []Ce!TypeOK
  <1>1. Ce!Init => CertificatesTyped
    <2>1. 0 \in 0 .. Life
      BY ServerAssumption DEF ServerAssumption, Ce!CertificatesAssumption
    <2> QED  BY <2>1 DEF Ce!Init, CertificatesTyped
  <1>2. CertificatesTyped => Ce!TypeOK
    <2> SUFFICES ASSUME CertificatesTyped PROVE Ce!TypeOK
      OBVIOUS
    <2>1. /\ attempt.website \subseteq Websites /\ attempt.tries \in 0 .. Ce!Retries
          /\ attempt.website = {} \/ \E w : attempt.website = {w}
      BY SMTT(30) DEF CertificatesTyped, Asked, Ce!Nothing, Ce!Retries
    <2>2. Cardinality(attempt.website) <= 1
      <3>1. Cardinality({}) = 0 /\ \A w : Cardinality({w}) = 1
        BY FS_EmptySet, FS_Singleton
      <3>2. \A n : n = 0 \/ n = 1 => n <= 1
        OBVIOUS
      <3>3. Cardinality(attempt.website) = 0 \/ Cardinality(attempt.website) = 1
        BY <2>1, <3>1
      <3> QED  BY <3>2, <3>3
    <2>3. \A S : Ce!Cardinality(S) = Cardinality(S)
      BY DEF Ce!Cardinality, Cardinality
    <2> QED  BY <2>1, <2>2, <2>3 DEF CertificatesTyped, Ce!TypeOK
  <1> QED  BY <1>1, <1>2, CertificatesStayTyped, CertificatesSteps, PTL DEF Ce!Spec

-----------------------------------------------------------------------------
\* A page is quoted no more often than logins were tried, and in a tab once more; no tab
\* has a state that was not drawn.
LoginTyped ==
    /\ next \in Addresses /\ next.quoted <= states
    /\ state \in 0 .. states /\ states \in 0 .. MaxStates
    /\ user \in Users \cup {Nobody} /\ owners \subseteq Users
    /\ tabs \in [Callers -> TabStates]
    /\ \A t \in Callers : tabs[t].address.quoted <= states + 1 /\ tabs[t].state <= states

\* A tab that shows something new, and the others that may be muddled by it.
LEMMA ShownTyped ==
  ASSUME LoginTyped, NEW t \in Callers, NEW r \in TabStates, Lg!Shows(t, r),
         states' \in Nat, states <= states',
         r.address.quoted <= states' + 1, r.state <= states'
  PROVE  /\ tabs' \in [Callers -> TabStates]
         /\ \A u \in Callers : tabs'[u].address.quoted <= states' + 1 /\ tabs'[u].state <= states'
  <1>0. /\ states \in Nat /\ tabs \in [Callers -> TabStates]
        /\ \A u \in Callers : /\ tabs[u] \in TabStates /\ tabs[u].address.quoted \in Nat
                               /\ tabs[u].state \in Nat
                               /\ tabs[u].address.quoted <= states + 1 /\ tabs[u].state <= states
    BY DEF LoginTyped, TabStates, Addresses
  <1>1. \A u \in Callers : tabs[u].address.quoted <= states' + 1 /\ tabs[u].state <= states'
    BY <1>0
  <1>2. ASSUME NEW u \in Callers
        PROVE  /\ tabs'[u] \in TabStates
               /\ tabs'[u] = r \/ /\ tabs'[u].address = tabs[u].address
                                  /\ tabs'[u].state = tabs[u].state
    <2>1. CASE u = t
      BY <2>1 DEF Lg!Shows
    <2>2. CASE u # t
      <3> DEFINE b == tabs[u].muddled \/ (tabs[u].at = "provider" /\ next' # next)
                 v == tabs[u]
      <3>1. tabs'[u] = [v EXCEPT !.muddled = b] /\ v \in TabStates
        BY <1>0, <2>2 DEF Lg!Shows
      <3>2. b \in BOOLEAN
        BY <1>0, Zenon DEF TabStates
      <3>3. v.address = tabs[u].address /\ v.state = tabs[u].state
        OBVIOUS
      <3> HIDE DEF b, v
      <3>4. [v EXCEPT !.muddled = b] \in TabStates
        BY <3>1, <3>2 DEF TabStates
      <3>5. [v EXCEPT !.muddled = b].address = v.address /\ [v EXCEPT !.muddled = b].state = v.state
        BY <3>1 DEF TabStates
      <3> QED  BY <3>1, <3>3, <3>4, <3>5
    <2> QED  BY <2>1, <2>2
  <1>3. tabs' = [u \in Callers |-> tabs'[u]]
    BY DEF Lg!Shows
  <1> QED  BY <1>1, <1>2, <1>3

\* What a tab may show: a page, or the login page for an address.
LEMMA BlankTyped ==
  /\ Lg!Blank \in TabStates /\ Lg!Blank.address.quoted = 0 /\ Lg!Blank.state = 0
  /\ \A p \in Places : Lg!Plain(p) \in Addresses /\ Lg!Plain(p).quoted = 0
  <1>1. \A p \in Places : Lg!Plain(p) \in Addresses /\ Lg!Plain(p).quoted = 0
    BY Quoting DEF Lg!Plain
  <1>2. Home \in Places
    BY DEF Places
  <1> QED  BY <1>1, <1>2 DEF Lg!Blank, TabStates, Stages
PageOf(x, p, q) == [Lg!Blank EXCEPT !.at = x, !.address = Lg!Plain(p), !.asked = q]
\* A tab at the page x is typed, with nothing quoted and no state.
LEMMA PageTyped ==
  ASSUME NEW x \in Stages, NEW p \in Places, NEW q \in Places, NEW r,
         r = [Lg!Blank EXCEPT !.at = x] \/ r = PageOf(x, p, q)
  PROVE  r \in TabStates /\ r.address.quoted = 0 /\ r.state = 0
  <1> DEFINE blank == Lg!Blank
             a == Lg!Plain(p)
  <1>1. blank \in TabStates /\ blank.address.quoted = 0 /\ blank.state = 0
        /\ a \in Addresses /\ a.quoted = 0
    BY BlankTyped
  <1> HIDE DEF blank, a
  <1>2. /\ [blank EXCEPT !.at = x] \in TabStates
        /\ [blank EXCEPT !.at = x].address = blank.address /\ [blank EXCEPT !.at = x].state = 0
        /\ [blank EXCEPT !.at = x, !.address = a, !.asked = q] \in TabStates
        /\ [blank EXCEPT !.at = x, !.address = a, !.asked = q].address = a
        /\ [blank EXCEPT !.at = x, !.address = a, !.asked = q].state = 0
    BY <1>1 DEF TabStates
  <1>3. r = [blank EXCEPT !.at = x] \/ r = [blank EXCEPT !.at = x, !.address = a, !.asked = q]
    BY DEF blank, a, PageOf
  <1> QED  BY <1>1, <1>2, <1>3
\* A tab that is sent to the login quotes the address it is to return to once more.
LEMMA LoginPageTyped ==
  ASSUME NEW u \in Addresses, NEW q \in Places, NEW b \in BOOLEAN, NEW r,
         r = [Lg!Blank EXCEPT !.at = "login", !.address = Lg!Quote(u), !.asked = q, !.muddled = b]
  PROVE  r \in TabStates /\ r.address.quoted = u.quoted + 1 /\ r.state = 0
  <1> DEFINE blank == Lg!Blank
             a == Lg!Quote(u)
  <1>1. blank \in TabStates /\ blank.state = 0 /\ "login" \in Stages
    BY BlankTyped DEF Stages
  <1>2. a \in Addresses /\ a.quoted = u.quoted + 1
    BY Quoting DEF Lg!Quote, Addresses
  <1> HIDE DEF blank, a
  <1>3. /\ [blank EXCEPT !.at = "login", !.address = a, !.asked = q, !.muddled = b] \in TabStates
        /\ [blank EXCEPT !.at = "login", !.address = a, !.asked = q, !.muddled = b].address = a
        /\ [blank EXCEPT !.at = "login", !.address = a, !.asked = q, !.muddled = b].state = 0
    BY <1>1, <1>2 DEF TabStates
  <1>4. r = [blank EXCEPT !.at = "login", !.address = a, !.asked = q, !.muddled = b]
    BY DEF blank, a
  <1> QED  BY <1>2, <1>3, <1>4

\* The session and the tabs keep their types while pages are quoted and unquoted.
LEMMA LoginStaysTyped ==
  ASSUME LoginTyped, [Lg!Next]_(Lg!vars)
  PROVE  LoginTyped'
  <1>0. /\ MaxStates \in Nat /\ states \in Nat /\ states <= MaxStates /\ next \in Addresses
        /\ next.quoted \in Nat /\ next.quoted <= states /\ next.page \in Places
        /\ tabs \in [Callers -> TabStates] /\ state \in 0 .. states
        /\ Home \in Places /\ Pages \subseteq Places
        /\ \A p \in Places : Lg!Plain(p) \in Addresses /\ Lg!Plain(p).quoted = 0
    BY Quoting, ServerAssumption
    DEF ServerAssumption, Lg!LoginAssumption, LoginTyped, Addresses, Places, Lg!Plain
  \* A tab shows something with a new address, and nothing was drawn.
  <1>1. ASSUME NEW t \in Callers, NEW r \in TabStates, Lg!Shows(t, r),
               r.address.quoted <= states + 1, r.state <= states,
               states' = states, state' \in 0 .. states, next' \in Addresses,
               next'.quoted <= states, user' \in Users \cup {Nobody}, owners' = owners
        PROVE  LoginTyped'
    <2>1. /\ tabs' \in [Callers -> TabStates]
          /\ \A u \in Callers : tabs'[u].address.quoted <= states' + 1 /\ tabs'[u].state <= states'
      BY <1>0, <1>1, ShownTyped
    <2> QED  BY <1>0, <1>1, <2>1 DEF LoginTyped
  <1>2. ASSUME NEW t \in Callers, NEW u \in Addresses, NEW p \in Places, NEW b \in BOOLEAN,
               Lg!LoginPage(t, u, p, b), u.quoted <= states,
               states' = states, state' \in 0 .. states, next' \in Addresses,
               next'.quoted <= states, user' \in Users \cup {Nobody}, owners' = owners
        PROVE  LoginTyped'
    <2> DEFINE r == [Lg!Blank EXCEPT !.at = "login", !.address = Lg!Quote(u), !.asked = p,
                                     !.muddled = b]
    <2>2. r \in TabStates /\ r.address.quoted = u.quoted + 1 /\ r.state = 0
      BY LoginPageTyped
    <2>3. Lg!Shows(t, r)
      BY <1>2 DEF Lg!LoginPage
    <2> HIDE DEF r
    <2>4. u.quoted \in Nat
      BY DEF Addresses
    <2>5. u.quoted + 1 <= states + 1 /\ 0 <= states
      BY <1>0, <1>2, <2>4
    <2>6. r.address.quoted <= states + 1 /\ r.state <= states
      BY <2>2, <2>5
    <2> QED  BY <1>1, <1>2, <2>2, <2>3, <2>6
  <1>3. user \in Users \cup {Nobody} /\ 0 \in 0 .. states /\ 0 <= states + 1 /\ 0 <= states
        /\ owners \subseteq Users
    BY <1>0 DEF LoginTyped
  <1>4. ASSUME NEW t \in Callers, NEW x \in Stages, NEW p \in Places, NEW q \in Places,
               \/ Lg!Shows(t, [Lg!Blank EXCEPT !.at = x])
               \/ Lg!Shows(t, [Lg!Blank EXCEPT !.at = x, !.address = Lg!Plain(p), !.asked = q]),
               user' \in Users \cup {Nobody}, UNCHANGED <<next, state, states, owners>>
        PROVE  LoginTyped'
    <2>1. \E r \in TabStates : Lg!Shows(t, r) /\ r.address.quoted = 0 /\ r.state = 0
      <3>1. PICK r : /\ Lg!Shows(t, r)
                     /\ \/ r = [Lg!Blank EXCEPT !.at = x]
                        \/ r = [Lg!Blank EXCEPT !.at = x, !.address = Lg!Plain(p), !.asked = q]
        BY <1>4
      <3>2. r \in TabStates /\ r.address.quoted = 0 /\ r.state = 0
        <4>1. CASE r = [Lg!Blank EXCEPT !.at = x]
          BY <4>1, PageTyped, Zenon
        <4>2. CASE r = [Lg!Blank EXCEPT !.at = x, !.address = Lg!Plain(p), !.asked = q]
          <5>1. r = PageOf(x, p, q)
            BY <4>2 DEF PageOf
          <5> QED  BY <5>1, PageTyped
        <4> QED  BY <3>1, <4>1, <4>2
      <3> QED  BY <3>1, <3>2
    <2> QED  BY <1>0, <1>1, <1>3, <1>4, <2>1
  <1>5. ASSUME NEW t \in Callers, NEW p \in Pages, Lg!Visit(t, p) PROVE LoginTyped'
    <2>1. CASE user # Nobody
      <3>1. /\ Lg!Shows(t, [Lg!Blank EXCEPT !.at = "shown", !.address = Lg!Plain(p), !.asked = p])
            /\ UNCHANGED <<next, state, states, user, owners>> /\ p \in Places /\ "shown" \in Stages
        BY <1>0, <1>5, <2>1 DEF Lg!Visit, Stages
      <3> QED  BY <1>3, <1>4, <3>1
    <2>2. CASE user = Nobody
      <3>1. /\ Lg!LoginPage(t, Lg!Plain(p), p, FALSE) /\ next' = Lg!Plain(p)
            /\ UNCHANGED <<state, states, user, owners>> /\ p \in Places
        BY <1>0, <1>5, <2>2 DEF Lg!Visit
      <3>2. Lg!Plain(p) \in Addresses /\ Lg!Plain(p).quoted <= states
        BY <1>0, <1>3, <3>1
      <3> QED  BY <1>0, <1>2, <1>3, <3>1, <3>2
    <2> QED  BY <2>1, <2>2
  <1>6. ASSUME NEW t \in Callers, Lg!OpenLogin(t) PROVE LoginTyped'
    <2>1. /\ Lg!LoginPage(t, next, next.page, next.quoted > 0) /\ (next.quoted > 0) \in BOOLEAN
          /\ UNCHANGED <<next, state, states, user, owners>>
      BY <1>6 DEF Lg!OpenLogin
    <2> QED  BY <1>0, <1>2, <1>3, <2>1
  <1>7. ASSUME NEW t \in Callers, NEW p \in Pages, Lg!OpenLoginFor(t, p) PROVE LoginTyped'
    <2>1. /\ Lg!LoginPage(t, Lg!Plain(p), p, FALSE) /\ p \in Places
          /\ UNCHANGED <<next, state, states, user, owners>>
      BY <1>0, <1>7 DEF Lg!OpenLoginFor
    <2>2. Lg!Plain(p) \in Addresses /\ Lg!Plain(p).quoted <= states
      BY <1>0, <1>3, <2>1
    <2> QED  BY <1>0, <1>2, <1>3, <2>1, <2>2
  <1>8. ASSUME NEW t \in Callers, Lg!Click(t) PROVE LoginTyped'
    <2> DEFINE a == Lg!Quote(Lg!Unquote(tabs[t].address))
               r == [tabs[t] EXCEPT !.at = "provider", !.state = states + 1]
    <2>1. /\ states' = states + 1 /\ state' = states + 1 /\ states < MaxStates
          /\ next' = a /\ Lg!Shows(t, r) /\ UNCHANGED <<user, owners>>
      BY <1>8 DEF Lg!Click
    <2>2. /\ tabs[t] \in TabStates /\ tabs[t].address \in Addresses
          /\ tabs[t].address.quoted \in Nat /\ tabs[t].address.quoted <= states + 1
      BY DEF LoginTyped, TabStates, Addresses
    <2>3. a \in Addresses /\ a.quoted <= states + 1
      <3> DEFINE v == tabs[t].address
      <3>1. v \in Addresses /\ v.quoted \in Nat /\ v.quoted <= states + 1
        BY <2>2
      <3> HIDE DEF v
      <3>2. Lg!Unquote(v) \in Addresses /\ Lg!Quote(Lg!Unquote(v)) \in Addresses
        BY <3>1, Quoting
      <3>3. Lg!Unquote(v).quoted = IF v.quoted = 0 THEN 0 ELSE v.quoted - 1
        BY <3>1 DEF Lg!Unquote, Addresses
      <3>4. Lg!Quote(Lg!Unquote(v)).quoted = Lg!Unquote(v).quoted + 1
        BY <3>2 DEF Lg!Quote, Addresses
      <3>5. Lg!Quote(Lg!Unquote(v)).quoted <= states + 1
        <4> DEFINE n == v.quoted
        <4>1. n \in Nat /\ n <= states + 1 /\ Lg!Unquote(v).quoted = IF n = 0 THEN 0 ELSE n - 1
          BY <3>1, <3>3
        <4> HIDE DEF n
        <4>2. (IF n = 0 THEN 0 ELSE n - 1) + 1 <= states + 1
          BY <1>0, <4>1
        <4> QED  BY <3>4, <4>1, <4>2
      <3> QED  BY <3>2, <3>5 DEF v
    <2> DEFINE s == states + 1
    <2>4. s \in Nat /\ states <= s /\ s <= s /\ s \in 0 .. s /\ s \in 0 .. MaxStates /\ states + 1 <= s + 1
      BY <1>0, <2>1
    <2>5. r \in TabStates /\ r.address = tabs[t].address /\ r.state = s
      <3> HIDE DEF s
      <3>1. tabs[t] \in TabStates /\ s \in Nat /\ "provider" \in Stages
        BY <2>2, <2>4 DEF Stages
      <3> DEFINE v == tabs[t]
      <3> HIDE DEF v
      <3>2. /\ [v EXCEPT !.at = "provider", !.state = s] \in TabStates
            /\ [v EXCEPT !.at = "provider", !.state = s].address = v.address
            /\ [v EXCEPT !.at = "provider", !.state = s].state = s
        BY <3>1 DEF v, TabStates
      <3> QED  BY <3>2 DEF v, s
    <2>6. r.address.quoted <= s + 1
      BY <1>0, <2>2, <2>5
    <2>7. states' = s /\ state' = s
      BY <2>1
    <2> HIDE DEF r, a, s
    <2>8. /\ tabs' \in [Callers -> TabStates]
          /\ \A u \in Callers : tabs'[u].address.quoted <= states' + 1 /\ tabs'[u].state <= states'
      <3>1. states' \in Nat /\ states <= states' /\ r.address.quoted <= states' + 1 /\ r.state <= states'
        BY <2>4, <2>5, <2>6, <2>7
      <3> QED  BY <2>1, <2>5, <3>1, ShownTyped
    <2>9. a.quoted <= s
      BY <2>3 DEF s
    <2> QED  BY <1>3, <2>1, <2>3, <2>4, <2>7, <2>8, <2>9 DEF LoginTyped
  <1>9. ASSUME NEW t \in Callers, NEW n \in Users, Lg!Callback(t, n) PROVE LoginTyped'
    <2> DEFINE r == [tabs[t] EXCEPT !.at = "landed", !.address = Lg!Unquote(next)]
    <2>1. Lg!Shows(t, r) /\ user' = n /\ UNCHANGED <<next, state, states, owners>>
      BY <1>9 DEF Lg!Callback
    <2>2. Lg!Unquote(next) \in Addresses /\ Lg!Unquote(next).quoted <= states + 1
      <3>1. Lg!Unquote(next) \in Addresses
        BY <1>0, Quoting
      <3>2. Lg!Unquote(next).quoted = IF next.quoted = 0 THEN 0 ELSE next.quoted - 1
        BY <1>0 DEF Lg!Unquote, Addresses
      <3> DEFINE m == next.quoted
      <3>3. m \in Nat /\ m <= states /\ Lg!Unquote(next).quoted = IF m = 0 THEN 0 ELSE m - 1
        BY <1>0, <3>2
      <3> HIDE DEF m
      <3>4. (IF m = 0 THEN 0 ELSE m - 1) <= states + 1
        BY <1>0, <3>3
      <3> QED  BY <3>1, <3>3, <3>4
    <2>3. tabs[t] \in TabStates /\ tabs[t].state <= states /\ "landed" \in Stages
      BY DEF LoginTyped, Stages
    <2>4. r \in TabStates /\ r.address = Lg!Unquote(next) /\ r.state = tabs[t].state
      <3> DEFINE v == tabs[t]
                 a == Lg!Unquote(next)
      <3>1. v \in TabStates /\ a \in Addresses
        BY <2>2, <2>3
      <3> HIDE DEF v, a
      <3>2. /\ [v EXCEPT !.at = "landed", !.address = a] \in TabStates
            /\ [v EXCEPT !.at = "landed", !.address = a].address = a
            /\ [v EXCEPT !.at = "landed", !.address = a].state = v.state
        BY <2>3, <3>1 DEF TabStates
      <3> QED  BY <3>2 DEF v, a
    <2> HIDE DEF r
    <2> QED  BY <1>0, <1>1, <2>1, <2>2, <2>3, <2>4
  <1>10. ASSUME NEW t \in Callers, Lg!CallbackFails(t) PROVE LoginTyped'
    <2>1. /\ Lg!Shows(t, [Lg!Blank EXCEPT !.at = "error"]) /\ "error" \in Stages
          /\ UNCHANGED <<next, state, states, user, owners>>
      BY <1>10 DEF Lg!CallbackFails, Stages
    <2> QED  BY <1>0, <1>3, <1>4, <2>1
  <1>11. ASSUME NEW t \in Callers, Lg!Logout(t) PROVE LoginTyped'
    <2>1. /\ next' = Lg!Plain(Home) /\ state' = 0 /\ user' = Nobody
          /\ Lg!LoginPage(t, Lg!Plain(Home), Home, FALSE) /\ UNCHANGED <<states, owners>>
      BY <1>11 DEF Lg!Logout
    <2>2. Lg!Plain(Home) \in Addresses /\ Lg!Plain(Home).quoted <= states
      BY <1>0, <1>3
    <2> QED  BY <1>0, <1>2, <1>3, <2>1, <2>2
  <1>12. ASSUME NEW t \in Callers, Lg!AutoLogin(t) PROVE LoginTyped'
    <2>1. /\ Lg!Shows(t, [Lg!Blank EXCEPT !.at = "shown"]) /\ "shown" \in Stages
          /\ user' \in owners /\ UNCHANGED <<next, state, states, owners>>
      BY <1>12 DEF Lg!AutoLogin, Stages
    <2> QED  BY <1>0, <1>3, <1>4, <2>1
  <1>13. ASSUME NEW t \in Callers, NEW p \in Pages, Lg!VisitAdmin(t, p) PROVE LoginTyped'
    <2>1. \E x \in Stages :
            Lg!Shows(t, [Lg!Blank EXCEPT !.at = x, !.address = Lg!Plain(p), !.asked = p])
      <3>1. (IF Lg!IsAdmin THEN "shown" ELSE "error") \in Stages
        BY DEF Stages
      <3> QED  BY <1>13, <3>1 DEF Lg!VisitAdmin
    <2>2. UNCHANGED <<next, state, states, user, owners>>
      BY <1>13 DEF Lg!VisitAdmin
    <2> QED  BY <1>0, <1>3, <1>4, <2>1, <2>2
  <1>14. CASE Lg!ChangeOwners
    BY <1>14 DEF Lg!ChangeOwners, LoginTyped
  <1>15. CASE UNCHANGED Lg!vars
    BY <1>15 DEF Lg!vars, LoginTyped
  <1> QED
    BY <1>5, <1>6, <1>7, <1>8, <1>9, <1>10, <1>11, <1>12, <1>13, <1>14, <1>15 DEF Lg!Next

\* The variables of the login keep their types.
LEMMA LoginTypes == Spec => []Lg!TypeOK
  <1>1. Lg!Init => LoginTyped
    <2> SUFFICES ASSUME Lg!Init PROVE LoginTyped
      OBVIOUS
    <2>1. /\ next = Lg!Plain(Home) /\ state = 0 /\ states = 0 /\ user = Nobody /\ owners = {}
          /\ tabs = [t \in Callers |-> Lg!Blank]
      BY DEF Lg!Init
    <2>2. Home \in Places /\ Lg!Plain(Home) \in Addresses /\ Lg!Plain(Home).quoted = 0
      BY Quoting DEF Places, Lg!Plain
    <2>3. /\ Lg!Blank \in TabStates /\ Lg!Blank.address = Lg!Plain(Home) /\ Lg!Blank.state = 0
      BY <2>2 DEF Lg!Blank, TabStates, Stages
    <2>4. MaxStates \in Nat /\ 0 \in 0 .. 0 /\ 0 \in 0 .. MaxStates /\ 0 <= 0 /\ 0 <= 0 + 1
      BY ServerAssumption DEF ServerAssumption, Lg!LoginAssumption
    <2> QED  BY <2>1, <2>2, <2>3, <2>4 DEF LoginTyped
  <1>2. LoginTyped => Lg!TypeOK
    <2> SUFFICES ASSUME LoginTyped PROVE Lg!TypeOK
      OBVIOUS
    <2>1. MaxStates \in Nat /\ states \in 0 .. MaxStates
      BY ServerAssumption DEF ServerAssumption, Lg!LoginAssumption, LoginTyped
    <2>2. ASSUME NEW u \in Addresses, u.quoted <= states + 1 PROVE u \in Lg!Address
      <3>1. u.quoted \in Nat /\ u = [page |-> u.page, quoted |-> u.quoted] /\ u.page \in Places
        BY DEF Addresses
      <3>2. u.quoted \in 0 .. MaxStates + 2
        BY <2>1, <2>2, <3>1
      <3> QED  BY <3>1, <3>2 DEF Lg!Address, Places
    <2>3. next.quoted <= states + 1
      BY <2>1 DEF LoginTyped, Addresses
    <2> QED  BY <2>1, <2>2, <2>3 DEF LoginTyped, TabStates, Stages, Lg!TypeOK
  <1> QED  BY <1>1, <1>2, LoginStaysTyped, LoginSteps, PTL DEF Lg!Spec

-----------------------------------------------------------------------------
\* There are no more snapshots in a repository, or counted since a call, than were made.
BackersDo == [at : {"idle", "join", "list", "forget"}, repo : Repos \cup {Nobody},
              ids : SUBSET Bk!Snaps]
BackupTyped ==
    /\ job \in BOOLEAN /\ made \in 0 .. MaxSnaps
    /\ snaps \in [Repos -> SUBSET Bk!Snaps]
    /\ current \in Callers \cup {Nobody}
    /\ backers \in [Callers -> BackersDo]
    /\ \A c \in Callers : \A r \in Repos : since[c][r] <= made

\* What the newest snapshots of some are, is among them.
LEMMA NewestAreSome == \A k, S : Bk!Newest(k, S) \subseteq S
  BY DEF Bk!Newest

\* The snapshots and the callers keep their types.
LEMMA BackupStaysTyped ==
  ASSUME BackupInv, BackupTyped, [Bk!Next]_(Bk!vars)
  PROVE  BackupTyped'
  <1>0. /\ MaxSnaps \in Nat /\ made \in 0 .. MaxSnaps /\ made \in Nat
        /\ snaps \in [Repos -> SUBSET Bk!Snaps] /\ backers \in [Callers -> BackersDo]
        /\ \A c \in Callers : backers[c] \in BackersDo
        /\ since \in [Callers -> [Repos -> Nat]]
        /\ \A c \in Callers : \A r \in Repos : since[c][r] \in Nat /\ since[c][r] <= made
        /\ Bk!Resting \in BackersDo
    BY ServerAssumption
    DEF ServerAssumption, Bk!BackupAssumption, BackupInv, BackupTyped, Bk!Resting, BackersDo
  \* A call that returns rests and begins to count anew.
  <1>1. ASSUME NEW c \in Callers, Bk!Returns(c), made' = made
        PROVE  /\ backers' \in [Callers -> BackersDo]
               /\ \A d \in Callers : \A r \in Repos : since'[d][r] <= made'
    <2>1. backers' \in [Callers -> BackersDo]
      BY <1>0, <1>1 DEF Bk!Returns
    <2>2. ASSUME NEW d \in Callers, NEW r \in Repos PROVE since'[d][r] <= made'
      <3>1. since'[d][r] = since[d][r] \/ since'[d][r] = 0
        BY <1>0, <1>1 DEF Bk!Returns
      <3> QED  BY <1>0, <1>1, <3>1
    <2> QED  BY <2>1, <2>2
  <1>2. CASE Bk!CreateJob
    BY <1>2 DEF Bk!CreateJob, BackupTyped
  <1>3. ASSUME NEW c \in Callers, NEW block \in BOOLEAN, Bk!Execute(c, block) PROVE BackupTyped'
    <2>1. PICK x \in {"join", "idle"} : backers' = [backers EXCEPT ![c] = [backers[c] EXCEPT !.at = x]]
      BY <1>3 DEF Bk!Execute
    <2>2. [backers[c] EXCEPT !.at = x] \in BackersDo
      BY <1>0 DEF BackersDo
    <2>3. backers' \in [Callers -> BackersDo]
      BY <1>0, <2>1, <2>2
    <2> QED  BY <1>3, <2>3 DEF Bk!Execute, BackupTyped
  <1>4. ASSUME NEW c \in Callers, Bk!ExecuteReturns(c) PROVE BackupTyped'
    BY <1>1, <1>4 DEF Bk!ExecuteReturns, BackupTyped
  <1>5. ASSUME NEW c \in Callers, Bk!ListLast(c) PROVE BackupTyped'
    <2> DEFINE ids == Bk!Newest(1, snaps[backers[c].repo])
    <2>1. ids \subseteq Bk!Snaps
      BY <1>0, <1>5, NewestAreSome DEF Bk!ListLast, BackupInv
    <2>2. backers' = [backers EXCEPT ![c] = [backers[c] EXCEPT !.at = "forget", !.ids = ids]]
      <3>1. backers' = [backers EXCEPT ![c].at = "forget", ![c].ids = ids]
        BY <1>5 DEF Bk!ListLast
      <3> HIDE DEF ids
      <3> QED  BY <3>1, Zenon
    <2> HIDE DEF ids
    <2>3. [backers[c] EXCEPT !.at = "forget", !.ids = ids] \in BackersDo
      BY <1>0, <2>1 DEF BackersDo
    <2>4. backers' \in [Callers -> BackersDo]
      BY <1>0, <2>2, <2>3
    <2> QED  BY <1>5, <2>4 DEF Bk!ListLast, BackupTyped
  <1>6. ASSUME NEW c \in Callers, Bk!ForgetLast(c) PROVE BackupTyped'
    <2>1. snaps' \in [Repos -> SUBSET Bk!Snaps]
      BY <1>0, <1>6 DEF Bk!ForgetLast, Bk!Forget
    <2> QED  BY <1>1, <1>6, <2>1 DEF Bk!ForgetLast, BackupTyped
  <1>7. ASSUME NEW c \in Callers, NEW r \in Repos, Bk!BackupEnds(c, r) PROVE BackupTyped'
    <2>1. /\ made < MaxSnaps /\ made' = made + 1 /\ UNCHANGED <<job, current, backers>>
          /\ snaps' = [snaps EXCEPT ![r] = snaps[r] \cup {made + 1}]
          /\ since' = [d \in Callers |-> IF Bk!Free(d) THEN since[d]
                                         ELSE [since[d] EXCEPT ![r] = @ + 1]]
      BY <1>7 DEF Bk!BackupEnds
    <2>2. made + 1 \in 0 .. MaxSnaps /\ made + 1 \in Bk!Snaps
      BY <1>0, <2>1 DEF Bk!Snaps
    <2>3. snaps' \in [Repos -> SUBSET Bk!Snaps]
      BY <1>0, <2>1, <2>2
    <2>4. ASSUME NEW d \in Callers, NEW q \in Repos PROVE since'[d][q] <= made'
      <3>1. since'[d][q] = since[d][q] \/ since'[d][q] = since[d][q] + 1
        BY <1>0, <2>1
      <3> QED  BY <1>0, <2>1, <3>1
    <2> QED  BY <2>1, <2>2, <2>3, <2>4 DEF BackupTyped
  <1>8. ASSUME NEW c \in Callers, NEW r \in Repos, Bk!BackupFails(c, r) PROVE BackupTyped'
    BY <1>8 DEF Bk!BackupFails, BackupTyped
  <1>9. ASSUME NEW c \in Callers, NEW r \in Repos, NEW keep \in 0 .. 2, Bk!Clean(c, r, keep)
        PROVE  BackupTyped'
    <2>1. snaps' \in [Repos -> SUBSET Bk!Snaps]
      BY <1>0, <1>9 DEF Bk!Clean, Bk!Forget
    <2>2. backers' = backers
          \/ backers' = [backers EXCEPT ![c] = [backers[c] EXCEPT !.at = "list", !.repo = r]]
      <3>1. backers' = backers \/ backers' = [backers EXCEPT ![c].at = "list", ![c].repo = r]
        BY <1>9 DEF Bk!Clean
      <3> QED  BY <3>1, Zenon
    <2>3. [backers[c] EXCEPT !.at = "list", !.repo = r] \in BackersDo
      BY <1>0 DEF BackersDo
    <2>4. backers' \in [Callers -> BackersDo]
      BY <1>0, <2>2, <2>3
    <2> QED  BY <1>9, <2>1, <2>4 DEF Bk!Clean, BackupTyped
  <1>10. CASE UNCHANGED Bk!vars
    BY <1>10 DEF Bk!vars, BackupTyped
  <1> QED
    BY <1>2, <1>3, <1>4, <1>5, <1>6, <1>7, <1>8, <1>9, <1>10 DEF Bk!Next

\* The variables of the backups keep their types.
LEMMA BackupTypes == Spec => []Bk!TypeOK
  <1>1. Bk!Init => BackupTyped
    <2>1. MaxSnaps \in Nat
      BY ServerAssumption DEF ServerAssumption, Bk!BackupAssumption
    <2>2. Bk!Resting \in BackersDo
      BY DEF Bk!Resting, BackersDo
    <2> SUFFICES ASSUME Bk!Init PROVE BackupTyped
      OBVIOUS
    <2>3. /\ job = FALSE /\ snaps = [r \in Repos |-> {}] /\ made = 0 /\ current = Nobody
          /\ backers = [c \in Callers |-> Bk!Resting]
          /\ since = [c \in Callers |-> [r \in Repos |-> 0]]
      BY DEF Bk!Init
    <2>4. \A c \in Callers : \A r \in Repos : since[c][r] <= made
      BY <2>3
    <2>5. backers \in [Callers -> BackersDo] /\ snaps \in [Repos -> SUBSET Bk!Snaps]
      BY <2>2, <2>3
    <2>6. made \in 0 .. MaxSnaps
      BY <2>1, <2>3
    <2> QED  BY <2>3, <2>4, <2>5, <2>6 DEF BackupTyped
  <1>2. BackupInv /\ BackupTyped => Bk!TypeOK
    <2> SUFFICES ASSUME BackupInv, BackupTyped PROVE Bk!TypeOK
      OBVIOUS
    <2>1. /\ since \in [Callers -> [Repos -> Nat]] /\ made \in 0 .. MaxSnaps /\ MaxSnaps \in Nat
          /\ \A c \in Callers : \A r \in Repos : since[c][r] <= made
      BY ServerAssumption DEF ServerAssumption, Bk!BackupAssumption, BackupInv, BackupTyped
    <2>2. \A c \in Callers : \A r \in Repos : since[c][r] \in 0 .. MaxSnaps
      BY <2>1
    <2>3. since \in [Callers -> [Repos -> 0 .. MaxSnaps]]
      BY <2>1, <2>2
    <2> QED  BY <2>3 DEF BackupInv, BackupTyped, BackersDo, Bk!TypeOK
  <1> QED  BY <1>1, <1>2, BackupInit, BackupNext, BackupStaysTyped, BackupSteps, PTL DEF Bk!Spec

-----------------------------------------------------------------------------
\* No line is in a crontab, or in what a caller has read of it, more often than it is long.
CronCounts == [Cr!Lines -> 0 .. MaxLines]
CrontabTyped ==
    /\ config \in BOOLEAN /\ crontab \in CronCounts
    /\ \A c \in Callers : crons[c].lines \in CronCounts
    /\ wanted \subseteq Paths /\ stale \subseteq Callers /\ torn \subseteq Paths

\* There is a finite number of lines.
LEMMA FewLines == IsFiniteSet(Cr!Lines)
  <1>1. IsFiniteSet(Paths) /\ IsFiniteSet({"backup", "watchdog"})
    <2>1. IsFiniteSet({"backup"} \cup {"watchdog"})
      BY FS_Singleton, FS_AddElement
    <2>2. {"backup"} \cup {"watchdog"} = {"backup", "watchdog"}
      OBVIOUS
    <2> QED  BY <2>1, <2>2, ServerAssumption
             DEF ServerAssumption, Cr!CrontabAssumption, Cr!IsFiniteSet, IsFiniteSet
  <1>2. IsFiniteSet(Cr!Kinds \X Paths)
    BY <1>1, FS_Product DEF Cr!Kinds
  <1> DEFINE f == [p \in Cr!Kinds \X Paths |-> [kind |-> p[1], path |-> p[2]]]
  <1>3. f \in Surjection(Cr!Kinds \X Paths, Cr!Lines)
    <2>1. f \in [Cr!Kinds \X Paths -> Cr!Lines]
      BY DEF Cr!Lines
    <2>2. ASSUME NEW line \in Cr!Lines PROVE \E p \in Cr!Kinds \X Paths : f[p] = line
      <3>1. /\ <<line.kind, line.path>> \in Cr!Kinds \X Paths
            /\ line = [kind |-> line.kind, path |-> line.path]
        BY DEF Cr!Lines
      <3>2. f[<<line.kind, line.path>>] = line
        BY <3>1
      <3> QED  BY <3>1, <3>2
    <2> HIDE DEF f
    <2> QED  BY <2>1, <2>2 DEF Surjection
  <1> QED  BY <1>2, <1>3, FS_Surjection

\* A crontab that is no longer than MaxLines has no line more often.
LEMMA LongEnough ==
  ASSUME NEW lines \in [Cr!Lines -> 0 .. MaxLines + 1], Cr!Length(lines) <= MaxLines
  PROVE  lines \in CronCounts
  <1> DEFINE M == 1 .. MaxLines + 1
             E == {e \in Cr!Lines \X M : e[2] <= lines[e[1]]}
  <1>0. MaxLines \in Nat
    BY ServerAssumption DEF ServerAssumption, Cr!CrontabAssumption
  <1>1. IsFiniteSet(M) /\ Cardinality(M) = MaxLines + 1
    <2>1. MaxLines + 1 \in Int /\ 1 \in Int /\ ~(1 > MaxLines + 1) /\ MaxLines + 1 - 1 + 1 = MaxLines + 1
      BY <1>0
    <2> QED  BY <2>1, FS_Interval
  <1>2. IsFiniteSet(Cr!Lines \X M)
    BY <1>1, FewLines, FS_Product
  <1>3. IsFiniteSet(E)
    BY <1>2, FS_Subset
  <1>4. Cardinality(E) <= MaxLines
    <2>1. \A S : Cr!Cardinality(S) = Cardinality(S)
      BY DEF Cr!Cardinality, Cardinality
    <2> QED  BY <2>1 DEF Cr!Length
  <1>5. ASSUME NEW line \in Cr!Lines, lines[line] = MaxLines + 1 PROVE FALSE
    <2> DEFINE f == [n \in M |-> <<line, n>>]
    <2>1. f \in Injection(M, E)
      <3>1. \A n \in M : <<line, n>> \in E
        BY <1>0, <1>5
      <3> HIDE DEF E, M
      <3>2. f \in [M -> E]
        BY <3>1
      <3>3. ASSUME NEW a \in M, NEW b \in M, f[a] = f[b] PROVE a = b
        <4>1. <<line, a>> = <<line, b>>
          BY <3>3
        <4> QED  BY <4>1
      <3> HIDE DEF f
      <3> QED  BY <3>2, <3>3 DEF Injection, IsInjective
    <2> HIDE DEF f, E, M
    <2>2. Cardinality(M) <= Cardinality(E) /\ Cardinality(E) \in Nat
      BY <1>3, <2>1, FS_Injection, FS_CardinalityType
    <2> QED  BY <1>0, <1>1, <1>4, <2>2
  <1>6. \A line \in Cr!Lines : lines[line] \in 0 .. MaxLines + 1 /\ lines[line] # MaxLines + 1
    BY <1>5
  <1>7. \A line \in Cr!Lines : lines[line] \in 0 .. MaxLines
    BY <1>0, <1>6
  <1> QED  BY <1>7 DEF CronCounts

\* The crontab, and what the callers have read of it, keep their types.
LEMMA CrontabStaysTyped ==
  ASSUME CrontabInv, CrontabTyped, [Cr!Next]_(Cr!vars)
  PROVE  CrontabTyped'
  <1>0. /\ MaxLines \in Nat /\ crontab \in CronCounts /\ config \in BOOLEAN
        /\ crons \in [Callers -> Crons]
        /\ \A c \in Callers : /\ crons[c] \in Crons /\ crons[c].lines \in CronCounts
                               /\ crons[c].path \in Paths
        /\ wanted \subseteq Paths /\ stale \subseteq Callers /\ torn \subseteq Paths
        /\ Cr!Empty \in CronCounts
    BY ServerAssumption
    DEF ServerAssumption, Cr!CrontabAssumption, CrontabInv, CrontabTypes, CrontabTyped, Crons,
        CronCounts, Cr!Empty
  \* What a call has read: the crontab when it begins, what it had, or nothing.
  <1>1. ASSUME NEW c \in Callers, NEW r, r.lines \in CronCounts, crons' = [crons EXCEPT ![c] = r]
        PROVE  \A d \in Callers : crons'[d].lines \in CronCounts
    BY <1>0, <1>1
  <1>2. ASSUME NEW c \in Callers, NEW x, Cr!Goes(c, x)
        PROVE  \A d \in Callers : crons'[d].lines \in CronCounts
    <2>1. [crons[c] EXCEPT !.at = x].lines = crons[c].lines
      BY <1>0 DEF Crons
    <2>2. crons' = [crons EXCEPT ![c] = [crons[c] EXCEPT !.at = x]]
      BY <1>2 DEF Cr!Goes
    <2> QED  BY <1>0, <1>1, <2>1, <2>2
  <1>3. ASSUME NEW c \in Callers, Cr!Returns(c)
        PROVE  \A d \in Callers : crons'[d].lines \in CronCounts
    <2>1. Cr!Idle.lines = Cr!Empty
      BY DEF Cr!Idle
    <2> QED  BY <1>0, <1>1, <1>3, <2>1 DEF Cr!Returns
  <1>4. ASSUME NEW c \in Callers, NEW x, NEW op, NEW p, NEW lines \in CronCounts,
               Cr!Begins(c, x, op, p, lines)
        PROVE  \A d \in Callers : crons'[d].lines \in CronCounts
    <2>1. crons' = [crons EXCEPT ![c] = [at |-> x, op |-> op, path |-> p, lines |-> lines]]
      BY <1>4 DEF Cr!Begins
    <2> QED  BY <1>1, <2>1
  <1>5. ASSUME NEW c \in Callers, Cr!InitClient(c) PROVE CrontabTyped'
    <2>1. \A d \in Callers : crons'[d].lines \in CronCounts
      BY <1>0, <1>4, <1>5 DEF Cr!InitClient
    <2>2. config' = TRUE /\ UNCHANGED <<crontab, wanted, stale, torn>>
      BY <1>5 DEF Cr!InitClient, Cr!Begins
    <2> QED  BY <1>0, <2>1, <2>2 DEF CrontabTyped
  <1>6. ASSUME NEW c \in Callers, NEW ok \in BOOLEAN, Cr!InitRepo(c, ok) PROVE CrontabTyped'
    <2>1. \A d \in Callers : crons'[d].lines \in CronCounts
      BY <1>3, <1>6 DEF Cr!InitRepo
    <2>2. config' \in BOOLEAN
      BY <1>0, <1>6, Zenon DEF Cr!InitRepo
    <2>3. UNCHANGED <<crontab, wanted, stale, torn>>
      BY <1>6 DEF Cr!InitRepo
    <2> QED  BY <1>0, <2>1, <2>2, <2>3 DEF CrontabTyped
  <1>7. ASSUME NEW c \in Callers, NEW op \in Cr!Kinds \cup {"disable"}, NEW p \in Paths,
               Cr!Schedule(c, op, p)
        PROVE  CrontabTyped'
    <2>1. \A d \in Callers : crons'[d].lines \in CronCounts
      BY <1>0, <1>4, <1>7 DEF Cr!Schedule
    <2>2. UNCHANGED <<config, crontab, wanted, stale, torn>>
      BY <1>7 DEF Cr!Schedule, Cr!Begins
    <2> QED  BY <1>0, <2>1, <2>2 DEF CrontabTyped
  <1>8. ASSUME NEW c \in Callers, Cr!Check(c) PROVE CrontabTyped'
    <2>1. \A d \in Callers : crons'[d].lines \in CronCounts
      BY <1>2, <1>3, <1>8 DEF Cr!Check
    <2>2. wanted' \subseteq Paths /\ stale' \subseteq Callers
      BY <1>0, <1>8 DEF Cr!Check
    <2>3. UNCHANGED <<config, crontab, torn>>
      BY <1>8 DEF Cr!Check
    <2> QED  BY <1>0, <2>1, <2>2, <2>3 DEF CrontabTyped
  <1>9. ASSUME NEW c \in Callers, Cr!WriteScript(c) PROVE CrontabTyped'
    <2>1. \A d \in Callers : crons'[d].lines \in CronCounts
      BY <1>2, <1>9 DEF Cr!WriteScript
    <2>2. stale' \subseteq Callers /\ torn' \subseteq Paths
      BY <1>0, <1>9 DEF Cr!WriteScript
    <2>3. UNCHANGED <<config, crontab, wanted>>
      BY <1>9 DEF Cr!WriteScript
    <2> QED  BY <1>0, <2>1, <2>2, <2>3 DEF CrontabTyped
  <1>10. ASSUME NEW c \in Callers, Cr!WriteLines(c) PROVE CrontabTyped'
    <2> DEFINE own == crons[c]
               new == Cr!Written(crons[c])
    <2>1. \A d \in Callers : crons'[d].lines \in CronCounts
      BY <1>3, <1>10 DEF Cr!WriteLines
    <2>2. new \in [Cr!Lines -> 0 .. MaxLines + 1]
      <3>1. own.lines \in CronCounts
        BY <1>0
      <3>2. \A line \in Cr!Lines : /\ own.lines[line] \in 0 .. MaxLines + 1
                                   /\ own.lines[line] + 1 \in 0 .. MaxLines + 1
        BY <1>0, <3>1 DEF CronCounts
      <3>3. 0 \in 0 .. MaxLines + 1
        BY <1>0
      <3>4. CASE own.op = "disable"
        BY <3>2, <3>3, <3>4 DEF Cr!Written
      <3>5. CASE own.op # "disable"
        <4> DEFINE key == [kind |-> own.op, path |-> own.path]
        <4>1. new = [own.lines EXCEPT ![key] = own.lines[key] + 1]
          BY <3>5 DEF Cr!Written
        <4>2. key \in Cr!Lines
          <5>1. own.op \in Cr!Kinds
            BY <1>10, <3>5 DEF Cr!WriteLines, Cr!At, CrontabInv, CrontabTypes, Scheduling
          <5> QED  BY <1>0, <5>1 DEF Cr!Lines
        <4>3. own.lines \in [Cr!Lines -> 0 .. MaxLines + 1]
          BY <3>1, <3>2 DEF CronCounts
        <4> HIDE DEF key
        <4> QED  BY <3>2, <4>1, <4>2, <4>3
      <3> QED  BY <3>4, <3>5
    <2>3. crontab' = new /\ Cr!Length(new) <= MaxLines /\ UNCHANGED config
      BY <1>10 DEF Cr!WriteLines
    <2> HIDE DEF new
    <2>4. crontab' \in CronCounts
      BY <2>2, <2>3, LongEnough
    <2>5. wanted' \subseteq Paths /\ stale' \subseteq Callers /\ torn' \subseteq Paths
      BY <1>0, <1>10 DEF Cr!WriteLines, Cr!Stopped
    <2> QED  BY <1>0, <2>1, <2>3, <2>4, <2>5 DEF CrontabTyped
  <1>11. ASSUME NEW c \in Callers, Cr!WriteFails(c) PROVE CrontabTyped'
    <2>1. \A d \in Callers : crons'[d].lines \in CronCounts
      BY <1>3, <1>11 DEF Cr!WriteFails
    <2>2. stale' \subseteq Callers /\ UNCHANGED <<config, crontab, wanted, torn>>
      BY <1>0, <1>11 DEF Cr!WriteFails
    <2> QED  BY <1>0, <2>1, <2>2 DEF CrontabTyped
  <1>12. CASE UNCHANGED Cr!vars
    BY <1>12 DEF Cr!vars, CrontabTyped
  <1> QED
    BY <1>5, <1>6, <1>7, <1>8, <1>9, <1>10, <1>11, <1>12 DEF Cr!Next

\* The variables of the crontab keep their types.
LEMMA CrontabTypesHold == Spec => []Cr!TypeOK
  <1>1. Cr!Init => CrontabTyped
    <2> SUFFICES ASSUME Cr!Init PROVE CrontabTyped
      OBVIOUS
    <2>1. Cr!Empty \in CronCounts
      BY ServerAssumption DEF ServerAssumption, Cr!CrontabAssumption, CronCounts, Cr!Empty
    <2>2. Cr!Idle.lines = Cr!Empty
      BY DEF Cr!Idle
    <2>3. \A c \in Callers : crons[c].lines = Cr!Empty
      BY <2>2 DEF Cr!Init
    <2> QED  BY <2>1, <2>3 DEF Cr!Init, CrontabTyped
  <1>2. CrontabInv /\ CrontabTyped => Cr!TypeOK
    <2> SUFFICES ASSUME CrontabInv, CrontabTyped PROVE Cr!TypeOK
      OBVIOUS
    <2> DEFINE Right == [at : {"idle", "repo", "check", "script", "write"},
                         op : Cr!Kinds \cup {"none", "init", "disable"},
                         path : Paths, lines : [Cr!Lines -> 0 .. MaxLines]]
    <2>1. ASSUME NEW r \in Crons, r.lines \in CronCounts PROVE r \in Right
      BY <2>1 DEF Crons, CronStages, Scheduling, CronOps, CronCounts
    <2>2. crons \in [Callers -> Right]
      BY <2>1 DEF CrontabInv, CrontabTypes, CrontabTyped
    <2>3. crontab \in [Cr!Lines -> 0 .. MaxLines]
      BY DEF CrontabTyped, CronCounts
    <2> QED  BY <2>2, <2>3 DEF CrontabInv, CrontabTypes, CrontabTyped, Cr!TypeOK
  <1>3. Paths # {}
    BY ServerAssumption DEF ServerAssumption, Cr!CrontabAssumption
  <1> QED
    BY <1>1, <1>2, <1>3, CrontabInit, CrontabNext, CrontabStaysTyped, CrontabSteps, PTL DEF Cr!Spec

-----------------------------------------------------------------------------
(* The promises.                                                           *)

\* No notice is lost between being added, fetched, seen and trimmed
\* (tools/notificationsqueue), and no mail is sent twice (the admin's notifier),
\* for any number of greenlets, notices, mails, sizes of a page and of the seen list.
THEOREM QueuesAreKept == Spec => []QueuesDeliver
  <1>1. Nt!NoticesKept /\ Ml!MailedOnce => QueuesDeliver
    BY DEF QueuesDeliver
  <1> QED  BY <1>1, NoticesKept, MailsKept, PTL

\* A wallet whose address was given away stays stored while activation, trustlines and
\* funding come and go (the admin's wallet actor), and the default identity is stored
\* and in use (core/identity), for any callers and names.
THEOREM AdminIsKept == Spec => []AdminKeeps
  <1>1. Wl!GivenIsKept /\ Id!DefaultStands => AdminKeeps
    BY DEF AdminKeeps
  <1> QED  BY <1>1, WalletsKept, IdentityKept, PTL

\* A login ends at the page it was asked for, for any tabs, pages and users
\* (packages/auth).
THEOREM LoginLands == Spec => []LandsWhereAsked
  <1>1. Lg!LandsWhereAsked => LandsWhereAsked
    BY DEF LandsWhereAsked
  <1> QED  BY <1>1, LoginKept, PTL

\* A renewal job in which nothing failed leaves no certificate in its last days, for any
\* websites and any life of a certificate (install/certbot and sals/nginx).
THEOREM CertificatesLast == Spec => []RenewedInTime
  <1>1. Ce!RenewedInTime => RenewedInTime
    BY DEF RenewedInTime
  <1> QED  BY <1>1, CertificatesKept, PTL

\* A backup said to have succeeded is in every repository, a cleaning leaves no old
\* snapshot, and what was enabled stays in the crontab, for any callers, repositories,
\* paths and overlaps of their names (sals/backupjob and tools/restic).
THEOREM BackupsKept == Spec => BackupsStay
  BY BackupKept, CrontabKept DEF BackupsStay

\* Every variable of the server's components keeps its type, for any callers, packages,
\* names and bounds: no count of the notices, mails, wallets, tries, states, days,
\* snapshots and lines passes its bound, and no quoted address grows without one.
THEOREM ServerTyped == Spec => []TypeOK
  <1>1. Init => which \in Parts
    BY DEF Init
  <1>2. which \in Parts /\ [Next]_vars => (which \in Parts)'
    BY DEF Next, vars, PackagesRuns, BackupRuns, CrontabRuns, NoticesRuns, MailsRuns,
       IdentityRuns, WalletsRuns, LoginRuns, CertificatesRuns, PollsRuns
  <1>3. Spec => [](which \in Parts)
    BY <1>1, <1>2, PTL DEF Spec
  <1>4. ASSUME which \in Parts, Pk!TypeOK, Bk!TypeOK, Cr!TypeOK, Nt!TypeOK, Ml!TypeOK,
               Id!TypeOK, Wl!TypeOK, Lg!TypeOK, Ce!TypeOK, Pl!TypeOK
        PROVE  TypeOK
    BY <1>4 DEF TypeOK
  <1> QED
    BY <1>3, <1>4, PackagesTypes, BackupTypes, CrontabTypesHold, NoticesTypes, MailsTypes,
       IdentityTypes, WalletsTypes, LoginTypes, CertificatesTypes, PollsTypes, PTL

\* A vote weighs what the wallets hold that have paid for it, whatever sessions of one
\* voter overlap, leave and come back, for any voters, wallets and amounts of tokens
\* (sals/chatflows and packages/polls).
THEOREM VotesAreWeighed == Spec => []VotesWeighed
  <1>1. PollsInv => VotesWeighed
    BY PollsTyped DEF VotesWeighed
  <1> QED  BY <1>1, VotesKept, PTL
=============================================================================
