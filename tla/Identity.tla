------------------------------ MODULE Identity ------------------------------
(***************************************************************************)
(* The identities of a threebot (jumpscale/core/identity/__init__.py) and  *)
(* the calls of the admin and identity actors on them                      *)
(* (packages/admin/actors/admin.py, identity.py).  The server and each     *)
(* shell are processes with a cache of their own of who "me" is, and of    *)
(* its record; the records and the configuration are on disk.              *)
(***************************************************************************)
EXTENDS Naturals

CONSTANTS Processes, Labels, Admins,
          Nobody   \* no label

IdentityAssumption == Nobody \notin Labels

VARIABLES labels,   \* the stored identities
          admins,   \* the stored admins of each
          default,  \* config["threebot"]["default"]
          me,       \* _me of each process
          mine,     \* the admins in the record of me
          outdated, \* ghost: another process has written since me was loaded
          undone    \* ghost: an outdated process has deleted the default

vars == <<labels, admins, default, me, mine, outdated, undone>>

TypeOK ==
    /\ labels \subseteq Labels /\ default \in Labels \cup {Nobody}
    /\ admins \in [Labels -> SUBSET Admins]
    /\ me \in [Processes -> Labels \cup {Nobody}]
    /\ mine \in [Processes -> SUBSET Admins]
    /\ outdated \in [Processes -> BOOLEAN] /\ undone \in BOOLEAN

Init ==
    /\ labels = {} /\ default = Nobody
    /\ admins = [n \in Labels |-> {}]
    /\ me = [p \in Processes |-> Nobody]
    /\ mine = [p \in Processes |-> {}]
    /\ outdated = [p \in Processes |-> FALSE] /\ undone = FALSE

Loaded(p) == me[p] # Nobody
Forgets(p) == /\ me' = [me EXCEPT ![p] = Nobody]
              /\ mine' = [mine EXCEPT ![p] = {}]
(* p writes to the disk, the others do not notice.                         *)
Writes(p) == outdated' = [q \in Processes |-> IF q = p THEN outdated[p]
                                              ELSE outdated[q] \/ Loaded(q)]

(* me: the default of the configuration, or the first identity listed.  A  *)
(* default that is not there is made anew, and refused without an email.   *)
Me(p) ==
    /\ ~Loaded(p)
    /\ \E n \in labels :
         /\ default \in {n, Nobody}
         /\ me' = [me EXCEPT ![p] = n]
         /\ mine' = [mine EXCEPT ![p] = admins[n]]
    /\ outdated' = [outdated EXCEPT ![p] = FALSE]
    /\ UNCHANGED <<labels, admins, default, undone>>

(* add_identity: new saves it, register and save once more, or everything  *)
(* is deleted again.  The name is looked up first.                         *)
AddIdentity(p, n, A) ==
    /\ n \notin labels
    /\ labels' = labels \cup {n}
    /\ admins' = [admins EXCEPT ![n] = A]
    /\ Writes(p)
    /\ UNCHANGED <<default, me, mine, undone>>

\* Mutant: _me is not reset.
SetDefault_Cached(p, n) ==
    /\ n \in labels
    /\ default' = n
    /\ Writes(p)
    /\ UNCHANGED <<labels, admins, me, mine, undone>>

(* set_identity of the admin actor: of those that are listed.              *)
SetDefault(p, n) ==
    /\ n \in labels
    /\ default' = n
    /\ Forgets(p)
    /\ outdated' = [q \in Processes |-> q # p /\ (outdated[q] \/ Loaded(q))]
    /\ undone' = FALSE
    /\ UNCHANGED <<labels, admins>>

(* set_identity of the identity actor makes it when it is not there.       *)
SetIdentity(p, n) ==
    /\ n \notin labels
    /\ labels' = labels \cup {n}
    /\ default' = n
    /\ Forgets(p)
    /\ outdated' = [q \in Processes |-> q # p /\ (outdated[q] \/ Loaded(q))]
    /\ undone' = FALSE
    /\ UNCHANGED admins

(* delete_identity refuses the one that is me.                             *)
DeleteIdentity(p, n) ==
    /\ Loaded(p) /\ n \in labels /\ n # me[p]
    /\ labels' = labels \ {n}
    /\ admins' = [admins EXCEPT ![n] = {}]
    /\ undone' = (undone \/ (outdated[p] /\ n = default))
    /\ Writes(p)
    /\ UNCHANGED <<default, me, mine>>

(* add_admin and delete_admin change the record and save it, as it was     *)
(* loaded: one that another process has deleted is there again.            *)
ChangeAdmins(p, a) ==
    /\ Loaded(p)
    /\ \E A \in {mine[p] \cup {a}, mine[p] \ {a}} :
         /\ A # mine[p]
         /\ mine' = [mine EXCEPT ![p] = A]
         /\ admins' = [admins EXCEPT ![me[p]] = A]
    /\ labels' = labels \cup {me[p]}
    /\ Writes(p)
    /\ UNCHANGED <<default, me, undone>>

Restart(p) ==
    /\ Forgets(p)
    /\ outdated' = [outdated EXCEPT ![p] = FALSE]
    /\ UNCHANGED <<labels, admins, default, undone>>

Next ==
    \E p \in Processes :
      \/ Me(p) \/ Restart(p)
      \/ \E n \in Labels :
           \/ SetDefault(p, n) \/ SetIdentity(p, n) \/ DeleteIdentity(p, n)
           \/ \E A \in SUBSET Admins : AddIdentity(p, n, A)
      \/ \E a \in Admins : ChangeAdmins(p, a)

Spec == Init /\ [][Next]_vars

-----------------------------------------------------------------------------
(* The default identity exists, and a process acts as it, with the admins  *)
(* that are stored, whatever identities are added, chosen and deleted      *)
(* meanwhile; only what another process has written since it took its      *)
(* copy can be different, and only such a process can delete the default.  *)
DefaultStands ==
    /\ undone \/ default \in labels \cup {Nobody}
    /\ \A p \in Processes : Loaded(p) /\ ~outdated[p] =>
         /\ me[p] \in labels /\ mine[p] = admins[me[p]]
         /\ default \in {me[p], Nobody}
=============================================================================
