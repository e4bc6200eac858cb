------------------------------ MODULE Syncthing ------------------------------
(***************************************************************************)
(* The configuration of a syncthing server as its clients change it        *)
(* (jumpscale/clients/syncthing/syncthing.py).  A client reads the         *)
(* configuration once and keeps it; every change is made in this copy,     *)
(* which is then posted whole.  An entry is a folder or a device: the code *)
(* is the same for both, and the lists are apart.                          *)
(***************************************************************************)
EXTENDS Naturals, Sequences, SequencesExt

CONSTANTS Clients, Names,
          MaxEntries \* bound: entries in the configuration

VARIABLES entries, \* names in the configuration of the server, in order
          copies,  \* the copy of each client, <<"none">> for none
          behind,  \* ghost: clients with a copy that is not what the server has
          heads,   \* ghost: names that were added while first in the copy
          lost     \* ghost: names that a client not behind has dropped unasked

vars == <<entries, copies, behind, heads, lost>>

None == <<"none">>
SyncthingAssumption == "none" \notin Names /\ MaxEntries \in Nat

TypeOK ==
    /\ entries \in Seq(Names) /\ Len(entries) <= MaxEntries
    /\ copies \in [Clients -> Seq(Names) \cup {None}]
    /\ behind \subseteq Clients /\ heads \subseteq Names /\ lost \subseteq Names

Init ==
    /\ entries = <<>> /\ copies = [c \in Clients |-> None]
    /\ behind = {} /\ heads = {} /\ lost = {}

(* _get_folder and _get_device: the index of the first of the name.  The   *)
(* callers test it as a Boolean, so that they miss the entry at 0.         *)
Place(names, n) == SelectInSeq(names, LAMBDA m : m = n)
Finds(names, n) == Place(names, n) > 1
Without(names, n) == RemoveAt(names, Place(names, n))

(* The copy is read when it is first needed, and after reload_config.      *)
Read(c) ==
    /\ copies[c] = None
    /\ copies' = [copies EXCEPT ![c] = entries]
    /\ behind' = behind \ {c}
    /\ UNCHANGED <<entries, heads, lost>>

Reload(c) ==
    /\ copies[c] # None
    /\ copies' = [copies EXCEPT ![c] = None]
    /\ UNCHANGED <<entries, behind, heads, lost>>

(* set_config; when the request fails the copy has the change all the      *)
(* same, and the next one posts it.                                        *)
Posts(c, names, asked, ok) ==
    /\ copies' = [copies EXCEPT ![c] = names]
    /\ IF ok
       THEN /\ entries' = names
            /\ behind' = {d \in Clients \ {c} : copies[d] # None}
            /\ lost' = IF c \in behind THEN lost
                       ELSE lost \cup (ToSet(entries) \ (ToSet(names) \cup asked))
       ELSE behind' = behind \cup {c} /\ UNCHANGED <<entries, lost>>

(* add_folder and add_device, with overwrite or without: that one refuses  *)
(* a name it finds.                                                        *)
\* Mutant: the old entry is not taken out.
Kept_All(names, n) == names
Kept(names, n) == IF Finds(names, n) THEN Without(names, n) ELSE names

Add(c, n, overwrite, ok) ==
    /\ copies[c] # None /\ Len(copies[c]) < MaxEntries
    /\ overwrite \/ ~Finds(copies[c], n)
    /\ heads' = IF Place(copies[c], n) = 1 THEN heads \cup {n} ELSE heads
    /\ Posts(c, Append(Kept(copies[c], n), n), {}, ok)

Delete(c, n, ok) ==
    /\ copies[c] # None /\ Finds(copies[c], n)
    /\ Posts(c, Without(copies[c], n), {n}, ok)
    /\ UNCHANGED heads

Next ==
    \E c \in Clients :
      \/ Read(c) \/ Reload(c)
      \/ \E n \in Names, ok \in BOOLEAN :
           Delete(c, n, ok) \/ \E overwrite \in BOOLEAN : Add(c, n, overwrite, ok)

Spec == Init /\ [][Next]_vars

-----------------------------------------------------------------------------
(* A name is there once, unless it was added while it was the first of the *)
(* list, where it is not found; and a client whose copy was what the       *)
(* server has drops nothing but what it was asked to delete.               *)
EntriesKept ==
    /\ lost = {}
    /\ \A i, j \in DOMAIN entries : i # j /\ entries[i] = entries[j] => entries[i] \in heads
=============================================================================
