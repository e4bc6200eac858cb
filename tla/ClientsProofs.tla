--------------------------- MODULE ClientsProofs ----------------------------
(***************************************************************************)
(* What the droplets, the circles and their files, the labels, the         *)
(* vesting accounts and the statistics keep is proved for any number of    *)
(* callers, names, parts, things and accounts: an inductive invariant for  *)
(* each, and that the behaviours of Clients are behaviours of each         *)
(* component. What stays in a configuration is proved in EntriesProofs. A  *)
(* sum of what accounts hold is taken apart by the lemmas of FoldProofs.   *)
(***************************************************************************)
EXTENDS EntriesProofs

-----------------------------------------------------------------------------
(* Droplets.                                                               *)

Steps == {"idle", "key", "make key", "check", "get", "destroy", "look up", "create", "assign",
          "delete", "delete all"}
Call == [at : Steps, name : DropletNames \cup {""}, project : Projects \cup {Default},
         delete : BOOLEAN, todo : SUBSET Nat]
Numbered == [id : Nat, name : DropletNames, project : Projects \cup {Default}]
DropletsTypes ==
    /\ droplets \subseteq Numbered /\ dropletsMade \in Nat
    /\ projects \subseteq Projects /\ deploys \in [Callers -> Call]
    /\ \A d \in droplets : d.id <= dropletsMade
    /\ \A d, e \in droplets : d.id = e.id => d = e

\* A deploy that has looked for droplets of its name.
Sought(c) == deploys[c].at \in {"get", "destroy", "look up", "create"}
LowerName(c) == Lower[deploys[c].name]
\* Two of a name have overlapped, and one that was alone knows what there is of its name.
Apart(c, d) == Sought(c) /\ Sought(d) /\ LowerName(c) = LowerName(d) => LowerName(c) \in overlaps
Knows(c) ==
    /\ deploys[c].at \in {"look up", "create"} /\ LowerName(c) \notin overlaps =>
          Dr!Namesakes(deploys[c].name) = {}
    /\ deploys[c].at = "destroy" =>
          /\ \E id \in Nat : deploys[c].todo = {id}
          /\ LowerName(c) \notin overlaps =>
               \A d \in Dr!Namesakes(deploys[c].name) : d.id \in deploys[c].todo
\* What a delete_all has left to destroy is not spared, and nothing new gets its identifier.
Spares(c) ==
    deploys[c].at = "delete all" =>
        /\ \A id \in deploys[c].todo : id <= dropletsMade
        /\ \A d \in droplets : d.id \in deploys[c].todo => d.name \notin Spared
Named(c) == deploys[c].at \notin {"idle", "delete all"} => deploys[c].name \in DropletNames
DropletsInv ==
    /\ DropletsTypes
    /\ Dr!NamedOnce
    /\ \A c, d \in Callers : c # d => Apart(c, d)
    /\ \A c \in Callers : Knows(c) /\ Spares(c)
    /\ \A c \in Callers : Named(c)

\* No call is one that is idle.
LEMMA IdleIsCall == Dr!Idle \in Call /\ Dr!Idle.at = "idle"
  <1>1. "idle" \in Steps /\ "" \in DropletNames \cup {""} /\ Default \in Projects \cup {Default}
        /\ {} \in SUBSET Nat
    BY DEF Steps
  <1> QED  BY <1>1 DEF Dr!Idle, Call

\* The invariant of the account of droplets holds at first.
LEMMA DropletsInit == Dr!Init => DropletsInv
  <1> SUFFICES ASSUME Dr!Init PROVE DropletsInv
    OBVIOUS
  <1>1. /\ droplets = {} /\ dropletsMade = 0 /\ projects = {} /\ doomed = {}
        /\ deploys = [c \in Callers |-> Dr!Idle]
    BY DEF Dr!Init
  <1>2. \A c \in Callers : deploys[c].at = "idle"
    BY <1>1, IdleIsCall
  <1>3. DropletsTypes
    BY <1>1, IdleIsCall DEF DropletsTypes
  <1>4. Dr!NamedOnce
    BY <1>1 DEF Dr!NamedOnce
  <1> QED  BY <1>2, <1>3, <1>4 DEF DropletsInv, Apart, Sought, Knows, Spares, Named

\* A caller c goes on to r; droplets may go, and change but for their identifier and name.
LEMMA Calling ==
  ASSUME DropletsInv, NEW c \in Callers, NEW r \in Call, deploys' = [deploys EXCEPT ![c] = r],
         dropletsMade' = dropletsMade, projects' \subseteq Projects, overlaps \subseteq overlaps',
         droplets' \subseteq Numbered,
         \A d \in droplets' : \E e \in droplets : d.id = e.id /\ d.name = e.name,
         \A d, e \in droplets' : d.id = e.id => d = e,
         \A d \in doomed' : d.name \notin Spared,
         \A d \in Callers \ {c} : Apart(c, d)',
         (Knows(c) /\ Spares(c))',
         Named(c)'
  PROVE  DropletsInv'
  <1>0. DropletsTypes /\ deploys \in [Callers -> Call] /\ Dr!NamedOnce
    BY DEF DropletsInv, DropletsTypes
  <1>1. deploys'[c] = r /\ \A d \in Callers \ {c} : deploys'[d] = deploys[d]
    BY <1>0
  <1>2. DropletsTypes'
    BY <1>0 DEF DropletsTypes
  <1>3. Dr!NamedOnce'
    <2>1. ASSUME NEW d \in droplets', NEW e \in droplets', d.id # e.id, Lower[d.name] = Lower[e.name]
          PROVE  Lower[d.name] \in overlaps'
      BY <1>0, <2>1 DEF Dr!NamedOnce
    <2> QED  BY <2>1 DEF Dr!NamedOnce
  <1>4. ASSUME NEW d \in Callers, NEW e \in Callers, d # e PROVE Apart(d, e)'
    <2>1. CASE d = c
      BY <1>4, <2>1
    <2>2. CASE e = c
      <3>1. Apart(c, d)'
        BY <1>4, <2>2
      <3> QED  BY <2>2, <3>1 DEF Apart
    <2>3. CASE d # c /\ e # c
      <3>1. Apart(d, e)
        BY <1>4 DEF DropletsInv
      <3> QED  BY <1>1, <2>3, <3>1 DEF Apart, Sought, LowerName
    <2> QED  BY <2>1, <2>2, <2>3
  <1>5. ASSUME NEW d \in Callers \ {c} PROVE (Knows(d) /\ Spares(d))'
    <2>1. Knows(d) /\ Spares(d) /\ deploys'[d] = deploys[d] /\ LowerName(d)' = LowerName(d)
      BY <1>1 DEF DropletsInv, LowerName
    <2>2. \A e \in Dr!Namesakes(deploys[d].name)' : \E f \in Dr!Namesakes(deploys[d].name) :
            e.id = f.id
      BY <2>1 DEF Dr!Namesakes
    <2>3. Knows(d)'
      <3>1. ASSUME deploys[d].at \in {"look up", "create"}, LowerName(d) \notin overlaps'
            PROVE  Dr!Namesakes(deploys[d].name)' = {}
        BY <2>1, <2>2, <3>1 DEF Knows
      <3>2. ASSUME deploys[d].at = "destroy", LowerName(d) \notin overlaps',
                   NEW e \in Dr!Namesakes(deploys[d].name)'
            PROVE  e.id \in deploys[d].todo
        BY <2>1, <2>2, <3>2 DEF Knows
      <3> QED  BY <2>1, <3>1, <3>2 DEF Knows
    <2>4. Spares(d)'
      BY <2>1 DEF Spares
    <2> QED  BY <2>3, <2>4
  <1>6. \A d \in Callers \ {c} : Named(d)'
    BY <1>1 DEF DropletsInv, Named
  <1> QED  BY <1>2, <1>3, <1>4, <1>5, <1>6 DEF DropletsInv

\* A caller that looks for no droplet to replace goes on, and what it leaves is as it was.
LEMMA Passing ==
  ASSUME DropletsInv, NEW c \in Callers, NEW r \in Call, deploys' = [deploys EXCEPT ![c] = r],
         UNCHANGED <<droplets, dropletsMade, projects, overlaps, doomed>>,
         r.at \notin {"get", "destroy", "look up", "create", "delete all"},
         r.at # "idle" => r.name \in DropletNames
  PROVE  DropletsInv'
  <1>0. DropletsTypes /\ deploys \in [Callers -> Call] /\ Dr!NamedOnce
    BY DEF DropletsInv, DropletsTypes
  <1>1. deploys'[c] = r
    BY <1>0
  <1>2. (Knows(c) /\ Spares(c))' /\ ~Sought(c)'
    BY <1>1 DEF Knows, Spares, Sought
  <1>3. \A d \in Callers : Apart(c, d)'
    BY <1>2 DEF Apart
  <1>4. droplets' = droplets /\ overlaps' = overlaps /\ dropletsMade' = dropletsMade
        /\ projects' = projects /\ doomed' = doomed
    OBVIOUS
  <1>5. /\ droplets' \subseteq Numbered /\ projects' \subseteq Projects /\ overlaps \subseteq overlaps'
        /\ \A d, e \in droplets' : d.id = e.id => d = e
        /\ \A d \in droplets' : \E e \in droplets : d.id = e.id /\ d.name = e.name
    BY <1>0, <1>4 DEF DropletsTypes
  <1>6. \A d \in doomed' : d.name \notin Spared
    BY <1>0, <1>4 DEF Dr!NamedOnce
  <1>7. Named(c)'
    BY <1>1 DEF Named
  <1> QED  BY <1>2, <1>3, <1>4, <1>5, <1>6, <1>7, Calling

\* A number above those there are.
LEMMA Fresh == \A n, id \in Nat : id <= n => id <= n + 1 /\ id # n + 1
  OBVIOUS

\* Every step of the account of droplets keeps its invariant.
LEMMA DropletsNext ==
  ASSUME DropletsInv, [Dr!Next]_(Dr!vars)
  PROVE  DropletsInv'
  <1>1. /\ DropletsTypes /\ deploys \in [Callers -> Call] /\ Dr!NamedOnce /\ dropletsMade \in Nat
        /\ droplets \subseteq Numbered /\ projects \subseteq Projects
        /\ \A c \in Callers : Knows(c) /\ Spares(c)
    BY DEF DropletsInv, DropletsTypes
  <1>2. \A c \in Callers : deploys[c] \in Call
    BY <1>1
  <1>3. \A d \in droplets : d.id \in Nat /\ d.name \in DropletNames /\ d.id <= dropletsMade
    BY <1>1 DEF Numbered, DropletsTypes
  \* What removing droplets leaves of the invariant.
  <1>4. ASSUME droplets' \subseteq droplets
        PROVE  /\ droplets' \subseteq Numbered
               /\ \A d \in droplets' : \E e \in droplets : d.id = e.id /\ d.name = e.name
               /\ \A d, e \in droplets' : d.id = e.id => d = e
    BY <1>1, <1>4 DEF DropletsTypes
  \* What makes two deploys of one name overlap comes before.
  <1>5. ASSUME NEW c \in Callers, Sought(c), deploys'[c].name = deploys[c].name,
               NEW r, deploys' = [deploys EXCEPT ![c] = r], overlaps \subseteq overlaps'
        PROVE  \A d \in Callers \ {c} : Apart(c, d)'
    <2> SUFFICES ASSUME NEW d \in Callers \ {c} PROVE Apart(c, d)'
      OBVIOUS
    <2>1. Apart(c, d) /\ deploys'[d] = deploys[d]
      BY <1>1, <1>5 DEF DropletsInv
    <2> QED  BY <1>5, <2>1 DEF Apart, Sought, LowerName
  <1>6. ASSUME NEW c \in Callers, Dr!Deploy(c) PROVE DropletsInv'
    <2>1. PICK name \in DropletNames, p \in projects \cup {Default}, delete \in BOOLEAN :
            deploys' = [deploys EXCEPT ![c] = [at |-> "key", name |-> name, project |-> p,
                                               delete |-> delete, todo |-> {}]]
      BY <1>6 DEF Dr!Deploy, Dr!Asked
    <2>2. UNCHANGED <<droplets, dropletsMade, projects, overlaps, doomed>>
      BY <1>6 DEF Dr!Deploy
    <2> DEFINE r == [at |-> "key", name |-> name, project |-> p, delete |-> delete, todo |-> {}]
    <2>3. r.at = "key" /\ r \in Call
      <3>1. "key" \in Steps /\ name \in DropletNames \cup {""} /\ p \in Projects \cup {Default}
            /\ {} \in SUBSET Nat
        BY <1>1 DEF Steps
      <3> QED  BY <3>1 DEF Call
    <2> QED  BY <2>1, <2>2, <2>3, Passing
  \* The callers that go on, or end, with nothing else changed.
  <1>7. ASSUME NEW c \in Callers, NEW at, at \in {"key", "make key", "check"},
               Dr!Goes(c, at), deploys[c].at \notin {"idle", "delete all"},
               UNCHANGED <<droplets, dropletsMade, projects, overlaps, doomed>>
        PROVE  DropletsInv'
    <2> DEFINE r == [deploys[c] EXCEPT !.at = at]
    <2>1. deploys' = [deploys EXCEPT ![c] = r]
      BY <1>1, <1>7 DEF Dr!Goes
    <2>2. at \in Steps
      BY <1>7 DEF Steps
    <2>3. r \in Call /\ r.at = at /\ r.name = deploys[c].name
      BY <1>2, <2>2 DEF Call
    <2> HIDE DEF r
    <2>4. r.name \in DropletNames
      BY <1>7, <2>3 DEF DropletsInv, Named
    <2> QED  BY <1>7, <2>1, <2>3, <2>4, Passing
  <1>8. ASSUME NEW c \in Callers, Dr!Ends(c),
               UNCHANGED <<droplets, dropletsMade, projects, overlaps, doomed>>
        PROVE  DropletsInv'
    BY <1>8, IdleIsCall, Passing DEF Dr!Ends
  <1>9. ASSUME NEW c \in Callers, Dr!FindKey(c) PROVE DropletsInv'
    <2>1. CASE sshkey
      BY <1>7, <1>9, <2>1 DEF Dr!FindKey, Dr!At
    <2>2. CASE ~sshkey
      BY <1>7, <1>9, <2>2 DEF Dr!FindKey, Dr!At
    <2> QED  BY <2>1, <2>2
  <1>10. ASSUME NEW c \in Callers, Dr!MakeKey(c) PROVE DropletsInv'
    <2>1. CASE sshkey
      BY <1>8, <1>10, <2>1 DEF Dr!MakeKey
    <2>2. CASE ~sshkey
      BY <1>7, <1>10, <2>2 DEF Dr!MakeKey, Dr!At
    <2> QED  BY <2>1, <2>2
  <1>11. ASSUME NEW c \in Callers, Dr!Check(c) PROVE DropletsInv'
    <2> DEFINE at == IF Dr!Namesakes(deploys[c].name) = {} THEN "look up" ELSE "get"
               r == [deploys[c] EXCEPT !.at = at]
    <2>1. /\ deploys[c].at = "check" /\ deploys' = [deploys EXCEPT ![c] = r]
          /\ UNCHANGED <<droplets, dropletsMade, projects, doomed>>
          /\ overlaps' = overlaps \cup
               {Lower[deploys[d].name] : d \in
                  {d \in Callers \ {c} : Dr!Deploying(d)
                      /\ Lower[deploys[d].name] = Lower[deploys[c].name]}}
      BY <1>1, <1>11 DEF Dr!Check, Dr!Goes, Dr!At
    <2>2. at \in Steps /\ at \in {"look up", "get"}
      BY DEF Steps
    <2>3. at = "look up" => Dr!Namesakes(deploys[c].name) = {}
      OBVIOUS
    <2> HIDE DEF at
    <2>4. r \in Call /\ r.at = at /\ r.name = deploys[c].name
      BY <1>2, <2>2 DEF Call
    <2> HIDE DEF r
    <2>5. deploys'[c] = r /\ \A d \in Callers \ {c} : deploys'[d] = deploys[d]
      BY <1>1, <2>1
    <2>6. (Knows(c) /\ Spares(c) /\ Named(c))'
      <3>1. deploys[c].name \in DropletNames
        BY <2>1 DEF DropletsInv, Named
      <3>2. Dr!Namesakes(deploys[c].name)' = Dr!Namesakes(deploys[c].name)
        BY <2>1, <2>4, <2>5 DEF Dr!Namesakes
      <3> QED  BY <2>2, <2>3, <2>4, <2>5, <3>1, <3>2 DEF Knows, Spares, Named
    <2>7. ASSUME NEW d \in Callers \ {c} PROVE Apart(c, d)'
      <3> SUFFICES ASSUME Sought(d), LowerName(d) = Lower[deploys[c].name]
                   PROVE  LowerName(d) \in overlaps'
        BY <2>4, <2>5 DEF Apart, Sought, LowerName
      <3>1. Dr!Deploying(d)
        BY DEF Sought, Dr!Deploying
      <3> QED  BY <2>1, <3>1 DEF LowerName
    <2>8. overlaps \subseteq overlaps' /\ droplets' \subseteq droplets /\ projects' \subseteq Projects
          /\ dropletsMade' = dropletsMade /\ \A d \in doomed' : d.name \notin Spared
      BY <1>1, <2>1 DEF Dr!NamedOnce
    <2>9. deploys' = [deploys EXCEPT ![c] = r] 
      BY <2>1
    <2> QED  BY <1>4, <2>4, <2>6, <2>7, <2>8, <2>9, Calling
  <1>12. ASSUME NEW c \in Callers, Dr!Get(c) PROVE DropletsInv'
    <2> DEFINE found == Dr!Namesakes(deploys[c].name)
    <2>1. /\ deploys[c].at = "get" /\ UNCHANGED <<droplets, dropletsMade, projects, overlaps, doomed>>
          /\ IF found = {} \/ ~deploys[c].delete
             THEN Dr!Ends(c)
             ELSE \E d \in found :
                    deploys' = [deploys EXCEPT ![c].at = "destroy", ![c].todo = {d.id}]
      BY <1>12 DEF Dr!Get, Dr!At
    <2>2. CASE Dr!Ends(c)
      BY <1>8, <2>1, <2>2
    <2>3. CASE ~Dr!Ends(c)
      <3>1. PICK d \in found : deploys' = [deploys EXCEPT ![c].at = "destroy", ![c].todo = {d.id}]
        BY <2>1, <2>3
      <3>2. d \in droplets /\ d.id \in Nat /\ Lower[d.name] = LowerName(c)
        BY <1>3 DEF Dr!Namesakes, LowerName
      <3> DEFINE r == [deploys[c] EXCEPT !.at = "destroy", !.todo = {d.id}]
      <3>3. deploys' = [deploys EXCEPT ![c] = r]
        BY <1>1, <3>1
      <3>4. r \in Call /\ r.at = "destroy" /\ r.name = deploys[c].name /\ r.todo = {d.id}
        <4>1. "destroy" \in Steps /\ {d.id} \in SUBSET Nat
          BY <3>2 DEF Steps
        <4> QED  BY <1>2, <4>1 DEF Call
      <3> HIDE DEF r
      <3>5. deploys'[c] = r /\ \A e \in Callers \ {c} : deploys'[e] = deploys[e]
        BY <1>1, <3>3
      <3>6. Knows(c)'
        <4>1. Dr!Namesakes(deploys[c].name)' = found /\ LowerName(c)' = LowerName(c)
          BY <2>1, <3>4, <3>5 DEF Dr!Namesakes, LowerName
        <4>2. ASSUME LowerName(c) \notin overlaps, NEW e \in found PROVE e.id \in {d.id}
          BY <1>1, <3>2, <4>2 DEF Dr!NamedOnce, Dr!Namesakes, LowerName
        <4> QED  BY <2>1, <3>2, <3>4, <3>5, <4>1, <4>2 DEF Knows
      <3>7. (Spares(c) /\ Named(c))'
        BY <2>1, <3>4, <3>5 DEF Spares, Named, DropletsInv
      <3>8. \A e \in Callers \ {c} : Apart(c, e)'
        BY <1>5, <2>1, <3>3, <3>4, <3>5 DEF Sought
      <3>9. overlaps \subseteq overlaps' /\ droplets' \subseteq droplets /\ projects' \subseteq Projects
            /\ dropletsMade' = dropletsMade /\ \A e \in doomed' : e.name \notin Spared
        BY <1>1, <2>1 DEF Dr!NamedOnce
      <3> QED  BY <1>4, <3>3, <3>4, <3>6, <3>7, <3>8, <3>9, Calling
    <2> QED  BY <2>2, <2>3
  <1>13. ASSUME NEW c \in Callers, Dr!Destroy(c) PROVE DropletsInv'
    <2>1. /\ deploys[c].at = "destroy" /\ UNCHANGED <<dropletsMade, projects, overlaps, doomed>>
          /\ \E id \in deploys[c].todo :
               IF Dr!Of(id) # {}
               THEN droplets' = droplets \ Dr!Of(id) /\ Dr!Goes(c, "look up")
               ELSE Dr!Ends(c) /\ UNCHANGED droplets
      BY <1>13 DEF Dr!Destroy, Dr!At
    <2>2. PICK id \in deploys[c].todo :
               IF Dr!Of(id) # {}
               THEN droplets' = droplets \ Dr!Of(id) /\ Dr!Goes(c, "look up")
               ELSE Dr!Ends(c) /\ UNCHANGED droplets
      BY <2>1
    <2>3. CASE Dr!Of(id) = {}
      BY <1>8, <2>1, <2>2, <2>3
    <2>4. CASE Dr!Of(id) # {}
      <3> DEFINE r == [deploys[c] EXCEPT !.at = "look up"]
      <3>1. droplets' = droplets \ Dr!Of(id) /\ deploys' = [deploys EXCEPT ![c] = r]
        BY <1>1, <2>2, <2>4 DEF Dr!Goes
      <3>2. r \in Call /\ r.at = "look up" /\ r.name = deploys[c].name
        <4>1. "look up" \in Steps
          BY DEF Steps
        <4> QED  BY <1>2, <4>1 DEF Call
      <3> HIDE DEF r
      <3>3. deploys'[c] = r
        BY <1>1, <3>1
      <3>4. Knows(c)'
        <4>1. ASSUME LowerName(c) \notin overlaps, NEW e \in Dr!Namesakes(deploys[c].name)'
              PROVE  FALSE
          <5>1. e \in droplets /\ e \notin Dr!Of(id) /\ e \in Dr!Namesakes(deploys[c].name)
            BY <3>1, <3>2, <3>3, <4>1 DEF Dr!Namesakes
          <5>2. e.id \in deploys[c].todo /\ deploys[c].todo = {id}
            BY <1>1, <2>1, <4>1, <5>1 DEF Knows
          <5> QED  BY <5>1, <5>2 DEF Dr!Of
        <4>2. LowerName(c)' = LowerName(c) /\ overlaps' = overlaps
          BY <2>1, <3>2, <3>3 DEF LowerName
        <4> QED  BY <3>2, <3>3, <4>1, <4>2 DEF Knows
      <3>5. (Spares(c) /\ Named(c))'
        BY <2>1, <3>2, <3>3 DEF Spares, Named, DropletsInv
      <3>6. \A e \in Callers \ {c} : Apart(c, e)'
        BY <1>5, <2>1, <3>1, <3>2, <3>3 DEF Sought
      <3>7. overlaps \subseteq overlaps' /\ droplets' \subseteq droplets /\ projects' \subseteq Projects
            /\ dropletsMade' = dropletsMade /\ \A e \in doomed' : e.name \notin Spared
        BY <1>1, <2>1, <3>1 DEF Dr!NamedOnce
      <3> QED  BY <1>4, <3>1, <3>2, <3>4, <3>5, <3>6, <3>7, Calling
    <2> QED  BY <2>3, <2>4
  <1>14. ASSUME NEW c \in Callers, Dr!LookUp(c) PROVE DropletsInv'
    <2>1. /\ deploys[c].at = "look up" /\ (Dr!Goes(c, "create") \/ Dr!Ends(c))
          /\ UNCHANGED <<droplets, dropletsMade, projects, overlaps, doomed>>
      BY <1>14 DEF Dr!LookUp, Dr!At
    <2>2. CASE Dr!Ends(c)
      BY <1>8, <2>1, <2>2
    <2>3. CASE Dr!Goes(c, "create")
      <3> DEFINE r == [deploys[c] EXCEPT !.at = "create"]
      <3>1. deploys' = [deploys EXCEPT ![c] = r]
        BY <1>1, <2>3 DEF Dr!Goes
      <3>2. r \in Call /\ r.at = "create" /\ r.name = deploys[c].name
        <4>1. "create" \in Steps
          BY DEF Steps
        <4> QED  BY <1>2, <4>1 DEF Call
      <3> HIDE DEF r
      <3>3. deploys'[c] = r
        BY <1>1, <3>1
      <3>4. (Knows(c) /\ Spares(c) /\ Named(c))'
        <4>1. Dr!Namesakes(deploys[c].name)' = Dr!Namesakes(deploys[c].name) /\ LowerName(c)' = LowerName(c)
          BY <2>1, <3>2, <3>3 DEF Dr!Namesakes, LowerName
        <4> QED  BY <1>1, <2>1, <3>2, <3>3, <4>1 DEF Knows, Spares, Named, DropletsInv
      <3>5. \A e \in Callers \ {c} : Apart(c, e)'
        BY <1>5, <2>1, <3>1, <3>2, <3>3 DEF Sought
      <3>6. overlaps \subseteq overlaps' /\ droplets' \subseteq droplets /\ projects' \subseteq Projects
            /\ dropletsMade' = dropletsMade /\ \A e \in doomed' : e.name \notin Spared
        BY <1>1, <2>1 DEF Dr!NamedOnce
      <3> QED  BY <1>4, <3>1, <3>2, <3>4, <3>5, <3>6, Calling
    <2> QED  BY <2>1, <2>2, <2>3
  <1>15. ASSUME NEW c \in Callers, Dr!Create(c) PROVE DropletsInv'
    <2> DEFINE new == [id |-> dropletsMade + 1, name |-> deploys[c].name, project |-> Default]
               r == IF deploys[c].project = Default THEN Dr!Idle
                    ELSE [deploys[c] EXCEPT !.at = "assign", !.todo = {dropletsMade + 1}]
    <2>1. /\ deploys[c].at = "create" /\ dropletsMade' = dropletsMade + 1
          /\ droplets' = droplets \cup {new} /\ deploys' = [deploys EXCEPT ![c] = r]
          /\ UNCHANGED <<projects, overlaps, doomed>>
      BY <1>1, <1>15 DEF Dr!Create, Dr!At, Dr!Ends
    <2>2. dropletsMade + 1 \in Nat
      BY <1>1
    <2>3. dropletsMade + 1 \in Nat /\ deploys[c].name \in DropletNames
      BY <2>2, <2>1 DEF DropletsInv, Named
    <2>4. new \in Numbered /\ new.id = dropletsMade + 1 /\ new.name = deploys[c].name
      BY <2>3 DEF Numbered
    <2>5. /\ r \in Call /\ r.at \in {"idle", "assign"}
          /\ r.at # "idle" => r.name \in DropletNames
      <3>1. CASE deploys[c].project = Default
        BY <3>1, IdleIsCall
      <3>2. CASE deploys[c].project # Default
        <4>1. "assign" \in Steps /\ {dropletsMade + 1} \in SUBSET Nat
          BY <2>3 DEF Steps
        <4>2. [deploys[c] EXCEPT !.at = "assign", !.todo = {dropletsMade + 1}] \in Call
          BY <1>2, <4>1 DEF Call
        <4> QED  BY <1>2, <2>3, <3>2, <4>2 DEF Call
      <3> QED  BY <3>1, <3>2
    <2> HIDE DEF new, r
    <2>6. deploys'[c] = r /\ \A d \in Callers \ {c} : deploys'[d] = deploys[d]
      BY <1>1, <2>1
    <2>7. \A d \in droplets : d.id # new.id /\ d.id <= dropletsMade + 1
      BY <1>1, <1>3, <2>4
    <2>8. DropletsTypes'
      <3>1. \A d \in droplets' : d.id <= dropletsMade'
        BY <2>1, <2>3, <2>4, <2>7
      <3>2. \A d, e \in droplets' : d.id = e.id => d = e
        BY <1>1, <2>1, <2>7 DEF DropletsTypes
      <3> QED  BY <1>1, <2>1, <2>3, <2>4, <2>5, <3>1, <3>2 DEF DropletsTypes
    <2>9. Knows(c)
      BY <1>1
    <2>10. Dr!NamedOnce'
      <3>1. ASSUME NEW d \in droplets, Lower[d.name] = Lower[new.name]
            PROVE  LowerName(c) \in overlaps /\ LowerName(c) = Lower[d.name]
        BY <2>1, <2>4, <2>9, <3>1 DEF Knows, Dr!Namesakes, LowerName
      <3>2. ASSUME NEW d \in droplets', NEW e \in droplets', d.id # e.id, Lower[d.name] = Lower[e.name]
            PROVE  Lower[d.name] \in overlaps
        <4>1. CASE d \in droplets /\ e \in droplets
          BY <1>1, <3>2, <4>1 DEF Dr!NamedOnce
        <4>2. CASE d \in droplets /\ e = new
          BY <3>1, <3>2, <4>2
        <4>3. CASE d = new /\ e \in droplets
          BY <3>1, <3>2, <4>3
        <4> QED  BY <2>1, <3>2, <4>1, <4>2, <4>3
      <3> QED  BY <1>1, <2>1, <3>2 DEF Dr!NamedOnce
    <2>11. ~Sought(c)' /\ (Knows(c) /\ Spares(c) /\ Named(c))'
      BY <2>5, <2>6 DEF Sought, Knows, Spares, Named
    <2>12. ASSUME NEW d \in Callers, NEW e \in Callers, d # e PROVE Apart(d, e)'
      <3>1. CASE d = c \/ e = c
        BY <2>11, <3>1 DEF Apart
      <3>2. CASE d # c /\ e # c
        <4>1. Apart(d, e) /\ deploys'[d] = deploys[d] /\ deploys'[e] = deploys[e] /\ overlaps' = overlaps
          BY <2>1, <2>6, <2>12, <3>2 DEF DropletsInv
        <4> QED  BY <4>1 DEF Apart, Sought, LowerName
      <3> QED  BY <3>1, <3>2
    <2>13. ASSUME NEW d \in Callers \ {c} PROVE (Knows(d) /\ Spares(d) /\ Named(d))'
      <3>1. Knows(d) /\ Spares(d) /\ Named(d) /\ deploys'[d] = deploys[d] /\ Apart(c, d)
        BY <2>6 DEF DropletsInv
      <3>2. LowerName(d)' = LowerName(d) /\ overlaps' = overlaps /\ dropletsMade' = dropletsMade + 1
        BY <2>1, <3>1 DEF LowerName
      <3>3. ASSUME Sought(d), LowerName(d) \notin overlaps
            PROVE  Dr!Namesakes(deploys[d].name)' = Dr!Namesakes(deploys[d].name)
        <4>1. LowerName(d) # LowerName(c)
          BY <2>1, <3>1, <3>3 DEF Apart, Sought
        <4>2. Lower[new.name] # Lower[deploys[d].name]
          BY <2>4, <4>1 DEF LowerName
        <4> QED  BY <2>1, <3>1, <4>2 DEF Dr!Namesakes
      <3>4. Knows(d)'
        BY <3>1, <3>2, <3>3 DEF Knows, Sought
      <3>5. Spares(d)'
        <4> SUFFICES ASSUME deploys[d].at = "delete all" PROVE Spares(d)'
          BY <3>1 DEF Spares
        <4>1. \A id \in deploys[d].todo : id \in Nat /\ id <= dropletsMade
          BY <1>2, <3>1 DEF Spares, Call
        <4>2. new.id \notin deploys[d].todo /\ \A id \in deploys[d].todo : id <= dropletsMade + 1
          <5>1. \A id \in Nat : id <= dropletsMade => id <= dropletsMade + 1 /\ id # dropletsMade + 1
            BY <1>1, Fresh
          <5> QED  BY <2>4, <4>1, <5>1
        <4> QED  BY <2>1, <3>1, <3>2, <4>2 DEF Spares
      <3>6. Named(d)'
        BY <3>1 DEF Named
      <3> QED  BY <3>4, <3>5, <3>6
    <2> QED  BY <2>8, <2>10, <2>11, <2>12, <2>13 DEF DropletsInv
  <1>16. ASSUME NEW c \in Callers, Dr!Assign(c) PROVE DropletsInv'
    <2> DEFINE Placed(d) == IF d.id \in deploys[c].todo /\ deploys[c].project \in projects
                            THEN [d EXCEPT !.project = deploys[c].project] ELSE d
    <2>1. /\ droplets' = {Placed(d) : d \in droplets} /\ deploys' = [deploys EXCEPT ![c] = Dr!Idle]
          /\ UNCHANGED <<dropletsMade, projects, overlaps, doomed>>
      BY <1>16 DEF Dr!Assign, Dr!Ends
    <2>2. \A d \in droplets : Placed(d) \in Numbered /\ Placed(d).id = d.id /\ Placed(d).name = d.name
      BY <1>1 DEF Numbered
    <2> HIDE DEF Placed
    <2>3. /\ droplets' \subseteq Numbered
          /\ \A d \in droplets' : \E e \in droplets : d.id = e.id /\ d.name = e.name
          /\ \A d, e \in droplets' : d.id = e.id => d = e
      BY <1>1, <2>1, <2>2 DEF DropletsTypes
    <2>4. deploys'[c] = Dr!Idle /\ Dr!Idle.at = "idle"
      BY <1>1, <2>1, IdleIsCall
    <2>5. (Knows(c) /\ Spares(c) /\ Named(c))' /\ ~Sought(c)'
      BY <2>4 DEF Knows, Spares, Named, Sought
    <2>6. \A d \in Callers \ {c} : Apart(c, d)'
      BY <2>5 DEF Apart
    <2>7. overlaps \subseteq overlaps' /\ projects' \subseteq Projects
          /\ dropletsMade' = dropletsMade /\ \A e \in doomed' : e.name \notin Spared
      BY <1>1, <2>1 DEF Dr!NamedOnce
    <2> QED  BY <2>1, <2>3, <2>5, <2>6, <2>7, IdleIsCall, Calling
  <1>17. ASSUME NEW c \in Callers, Dr!DeleteRemote(c) PROVE DropletsInv'
    <2>1. PICK name \in DropletNames : \E d \in Dr!Namesakes(name) :
            deploys' = [deploys EXCEPT ![c] =
                          [Dr!Idle EXCEPT !.at = "delete", !.name = name, !.todo = {d.id}]]
      BY <1>17 DEF Dr!DeleteRemote
    <2>2. PICK d \in Dr!Namesakes(name) :
            deploys' = [deploys EXCEPT ![c] =
                          [Dr!Idle EXCEPT !.at = "delete", !.name = name, !.todo = {d.id}]]
      BY <2>1
    <2> DEFINE r == [Dr!Idle EXCEPT !.at = "delete", !.name = name, !.todo = {d.id}]
    <2>3. "delete" \in Steps /\ name \in DropletNames \cup {""} /\ {d.id} \in SUBSET Nat
      BY <1>3 DEF Steps, Dr!Namesakes
    <2>4. r \in Call /\ r.at = "delete" /\ r.name = name
      BY <2>3, IdleIsCall DEF Call
    <2>5. deploys' = [deploys EXCEPT ![c] = r]
      BY <2>2
    <2> HIDE DEF r
    <2>6. UNCHANGED <<droplets, dropletsMade, projects, overlaps, doomed>>
      BY <1>17 DEF Dr!DeleteRemote
    <2> QED  BY <2>4, <2>5, <2>6, Passing
  <1>18. ASSUME NEW c \in Callers, Dr!DeleteAll(c) PROVE DropletsInv'
    <2>1. PICK p \in projects \cup {Default, "all"} :
            deploys' = [deploys EXCEPT ![c] =
                          [Dr!Idle EXCEPT !.at = "delete all", !.todo = {d.id : d \in Dr!Doomed(p)}]]
      BY <1>18 DEF Dr!DeleteAll
    <2>2. UNCHANGED <<droplets, dropletsMade, projects, overlaps, doomed>>
      BY <1>18 DEF Dr!DeleteAll
    <2> DEFINE todo == {d.id : d \in Dr!Doomed(p)}
               r == [Dr!Idle EXCEPT !.at = "delete all", !.todo = todo]
    <2>3. /\ todo \in SUBSET Nat /\ \A id \in todo : id <= dropletsMade
          /\ \A d \in droplets : d.id \in todo => d.name \notin Spared
      BY <1>1, <1>3 DEF Dr!Doomed, DropletsTypes
    <2> HIDE DEF todo
    <2>4. r \in Call /\ r.at = "delete all" /\ r.todo = todo
      <3>1. "delete all" \in Steps
        BY DEF Steps
      <3> QED  BY <2>3, <3>1, IdleIsCall DEF Call
    <2>5. deploys' = [deploys EXCEPT ![c] = r]
      BY <2>1 DEF todo
    <2> HIDE DEF r
    <2>6. deploys'[c] = r
      BY <1>1, <2>5
    <2>7. (Knows(c) /\ Spares(c) /\ Named(c))' /\ ~Sought(c)'
      BY <2>2, <2>3, <2>4, <2>6 DEF Knows, Spares, Named, Sought
    <2>8. \A d \in Callers \ {c} : Apart(c, d)'
      BY <2>7 DEF Apart
    <2>9. overlaps \subseteq overlaps' /\ droplets' \subseteq droplets /\ projects' \subseteq Projects
          /\ dropletsMade' = dropletsMade /\ \A e \in doomed' : e.name \notin Spared
      BY <1>1, <2>2 DEF Dr!NamedOnce
    <2> QED  BY <1>4, <2>4, <2>5, <2>7, <2>8, <2>9, Calling
  <1>19. ASSUME NEW c \in Callers, Dr!DestroyNext(c) PROVE DropletsInv'
    <2>1. /\ deploys[c].at \in {"delete", "delete all"} /\ UNCHANGED <<dropletsMade, projects, overlaps>>
      BY <1>19 DEF Dr!DestroyNext
    <2>2. PICK id \in deploys[c].todo :
         /\ droplets' = droplets \ Dr!Of(id)
         /\ doomed' = IF deploys[c].at = "delete all" THEN doomed \cup Dr!Of(id) ELSE doomed
         /\ IF Dr!Of(id) = {} \/ deploys[c].todo = {id} THEN Dr!Ends(c)
            ELSE deploys' = [deploys EXCEPT ![c].todo = @ \ {id}]
      BY <1>19 DEF Dr!DestroyNext, Dr!At
    <2>3. \A d \in doomed' : d.name \notin Spared
      BY <1>1, <2>2 DEF Spares, Dr!Of, Dr!NamedOnce
    <2>4. \E r \in Call : /\ deploys' = [deploys EXCEPT ![c] = r]
                          /\ \/ r = Dr!Idle
                             \/ /\ r.at = deploys[c].at /\ r.name = deploys[c].name
                                /\ r.todo \subseteq deploys[c].todo
      <3>1. CASE Dr!Ends(c)
        BY <3>1, IdleIsCall DEF Dr!Ends
      <3>2. CASE deploys' = [deploys EXCEPT ![c].todo = @ \ {id}]
        <4> DEFINE r == [deploys[c] EXCEPT !.todo = @ \ {id}]
        <4>1. deploys' = [deploys EXCEPT ![c] = r]
          BY <1>1, <3>2
        <4>2. r \in Call /\ r.at = deploys[c].at /\ r.name = deploys[c].name /\ r.todo \subseteq deploys[c].todo
          BY <1>2 DEF Call
        <4> HIDE DEF r
        <4> QED  BY <4>1, <4>2
      <3> QED  BY <2>2, <3>1, <3>2
    <2>5. PICK r \in Call : /\ deploys' = [deploys EXCEPT ![c] = r]
                            /\ \/ r = Dr!Idle
                               \/ /\ r.at = deploys[c].at /\ r.name = deploys[c].name
                                  /\ r.todo \subseteq deploys[c].todo
      BY <2>4
    <2>6. deploys'[c] = r
      BY <1>1, <2>5
    <2>7. (Knows(c) /\ Spares(c) /\ Named(c))' /\ ~Sought(c)'
      <3>1. CASE r = Dr!Idle
        BY <2>6, <3>1, IdleIsCall DEF Knows, Spares, Named, Sought
      <3>2. CASE r.at = deploys[c].at /\ r.name = deploys[c].name /\ r.todo \subseteq deploys[c].todo
        <4>1. droplets' \subseteq droplets /\ dropletsMade' = dropletsMade
          BY <2>1, <2>2
        <4>2. Spares(c) /\ Named(c)
          BY DEF DropletsInv
        <4>3. Spares(c)'
          BY <2>6, <3>2, <4>1, <4>2 DEF Spares
        <4> QED  BY <2>1, <2>6, <3>2, <4>2, <4>3 DEF Knows, Named, Sought
      <3> QED  BY <2>5, <3>1, <3>2
    <2>8. \A d \in Callers \ {c} : Apart(c, d)'
      BY <2>7 DEF Apart
    <2>9. overlaps \subseteq overlaps' /\ droplets' \subseteq droplets /\ projects' \subseteq Projects
          /\ dropletsMade' = dropletsMade
      BY <1>1, <2>1, <2>2
    <2> QED  BY <1>4, <2>3, <2>5, <2>7, <2>8, <2>9, Calling
  <1>20. ASSUME NEW c \in Callers, Dr!Fails(c) PROVE DropletsInv'
    BY <1>8, <1>20 DEF Dr!Fails
  <1>21. ASSUME UNCHANGED <<droplets, dropletsMade, deploys, overlaps, doomed>>, projects' \subseteq Projects
         PROVE  DropletsInv'
    <2>1. DropletsTypes' /\ Dr!NamedOnce'
      BY <1>1, <1>21 DEF DropletsTypes, Dr!NamedOnce
    <2>2. \A c, d \in Callers : c # d => Apart(c, d)'
      BY <1>21 DEF DropletsInv, Apart, Sought, LowerName
    <2>3. \A c \in Callers : (Knows(c) /\ Spares(c) /\ Named(c))'
      BY <1>21 DEF DropletsInv, Knows, Spares, Named, LowerName, Dr!Namesakes
    <2> QED  BY <2>1, <2>2, <2>3 DEF DropletsInv
  <1>22. ASSUME NEW p \in Projects, Dr!DeployProject(p) PROVE DropletsInv'
    BY <1>1, <1>21, <1>22 DEF Dr!DeployProject
  <1>23. ASSUME NEW p \in Projects, Dr!DeleteProject(p) PROVE DropletsInv'
    BY <1>1, <1>21, <1>23 DEF Dr!DeleteProject
  <1>24. CASE UNCHANGED Dr!vars
    BY <1>1, <1>21, <1>24 DEF Dr!vars
  <1> QED  BY <1>6, <1>9, <1>10, <1>11, <1>12, <1>13, <1>14, <1>15, <1>16, <1>17, <1>18, <1>19,
              <1>20, <1>22, <1>23, <1>24 DEF Dr!Next

\* The behaviours of Clients are behaviours of Droplets.
LEMMA DropletsSteps == Spec => Dr!Spec
  <1>1. Init => Dr!Init
    BY DEF Init
  <1>2. [Next]_vars => [Dr!Next]_(Dr!vars)
    BY DEF Next, vars, DropletsRuns, CirclesRuns, FilesRuns, TreeRuns, SyncthingRuns, GatewayRuns,
       LabelsRuns, VestingRuns, StatsRuns, dropletsVars, Dr!vars
  <1> QED  BY <1>1, <1>2, PTL DEF Spec, Dr!Spec

\* A name is the name of one droplet in every state.
LEMMA NamesKept == Spec => []Dr!NamedOnce
  <1>1. DropletsInv => Dr!NamedOnce
    BY DEF DropletsInv
  <1> QED  BY <1>1, DropletsInit, DropletsNext, DropletsSteps, PTL DEF Dr!Spec

\* Where a call goes on to r, which is to do what is there, the calls stay typed.
LEMMA TodoFits ==
  ASSUME deploys \in [Callers -> Call], \A d \in Callers : deploys[d].todo \subseteq 1 .. dropletsMade,
         dropletsMade \in Nat, dropletsMade' \in Nat, dropletsMade <= dropletsMade',
         NEW c \in Callers, NEW r, r.todo \subseteq 1 .. dropletsMade',
         deploys' = [deploys EXCEPT ![c] = r]
  PROVE  \A d \in Callers : deploys'[d].todo \subseteq 1 .. dropletsMade'
  <1>1. 1 .. dropletsMade \subseteq 1 .. dropletsMade'
    OBVIOUS
  <1>2. deploys'[c] = r /\ \A d \in Callers \ {c} : deploys'[d] = deploys[d]
    OBVIOUS
  <1> QED  BY <1>1, <1>2

\* The account of droplets begins typed.
LEMMA DropletsTypedInit == Dr!Init => Dr!TypeOK
  <1> SUFFICES ASSUME Dr!Init PROVE Dr!TypeOK
    OBVIOUS
  <1>1. /\ droplets = {} /\ dropletsMade = 0 /\ projects = {} /\ doomed = {} /\ overlaps = {}
        /\ sshkey \in BOOLEAN /\ \A c \in Callers : deploys[c].todo = {}
    BY DEF Dr!Init, Dr!Idle
  <1>2. MaxDroplets \in Nat
    BY ClientsAssumption DEF ClientsAssumption, Dr!DropletsAssumption
  <1>3. 0 \in 0 .. MaxDroplets
    BY <1>2
  <1> QED  BY <1>1, <1>3 DEF Dr!TypeOK

\* Every request to the account keeps its droplets, the calls and what was destroyed typed.
LEMMA DropletsTypedNext ==
  ASSUME DropletsInv, Dr!TypeOK, [Dr!Next]_(Dr!vars)
  PROVE  Dr!TypeOK'
  <1>1. MaxDroplets \in Nat
    BY ClientsAssumption DEF ClientsAssumption, Dr!DropletsAssumption
  <1>2. /\ droplets \subseteq Dr!Droplet /\ dropletsMade \in Nat /\ dropletsMade <= MaxDroplets
        /\ projects \subseteq Projects /\ sshkey \in BOOLEAN /\ deploys \in [Callers -> Call]
        /\ \A c \in Callers : deploys[c].todo \subseteq 1 .. dropletsMade
        /\ overlaps \subseteq DropletNames /\ doomed \subseteq Dr!Droplet
        /\ MaxDroplets \in Nat
    BY <1>1 DEF Dr!TypeOK, DropletsInv, DropletsTypes
  <1>3. \A d \in droplets : d.id \in 1 .. dropletsMade
    BY <1>2 DEF Dr!Droplet, DropletsInv, DropletsTypes
  <1>4. \A S : {d.id : d \in {d \in droplets : d \in S}} \subseteq 1 .. dropletsMade
    BY <1>3
  \* A call that goes on to r and leaves the account as it is.
  <1>5. ASSUME NEW c \in Callers, NEW r, r.todo \subseteq 1 .. dropletsMade',
               deploys' = [deploys EXCEPT ![c] = r],
               dropletsMade' \in Nat, dropletsMade <= dropletsMade', dropletsMade' <= MaxDroplets,
               droplets' \subseteq Dr!Droplet, projects' = projects, sshkey' \in BOOLEAN,
               overlaps' \subseteq DropletNames, doomed' \subseteq Dr!Droplet
        PROVE  Dr!TypeOK'
    <2>1. \A d \in Callers : deploys'[d].todo \subseteq 1 .. dropletsMade'
      BY <1>2, <1>5, TodoFits
    <2> QED  BY <1>2, <1>5, <2>1 DEF Dr!TypeOK
  <1>6. ASSUME NEW c \in Callers, NEW r, r.todo \subseteq 1 .. dropletsMade,
               deploys' = [deploys EXCEPT ![c] = r], dropletsMade' = dropletsMade,
               droplets' \subseteq Dr!Droplet, projects' = projects, sshkey' \in BOOLEAN,
               overlaps' \subseteq DropletNames, doomed' \subseteq Dr!Droplet
        PROVE  Dr!TypeOK'
    <2>1. /\ dropletsMade' \in Nat /\ dropletsMade <= dropletsMade' /\ dropletsMade' <= MaxDroplets
          /\ r.todo \subseteq 1 .. dropletsMade'
      BY <1>2, <1>6
    <2> QED  BY <1>5, <1>6, <2>1
  <1>7. ASSUME NEW c \in Callers, NEW at, Dr!Goes(c, at), dropletsMade' = dropletsMade,
               droplets' \subseteq Dr!Droplet, projects' = projects, sshkey' \in BOOLEAN,
               overlaps' \subseteq DropletNames, doomed' \subseteq Dr!Droplet
        PROVE  Dr!TypeOK'
    <2> DEFINE r == [deploys[c] EXCEPT !.at = at]
    <2>1. deploys' = [deploys EXCEPT ![c] = r]
      BY <1>2, <1>7 DEF Dr!Goes
    <2>2. r.todo = deploys[c].todo
      BY <1>2 DEF Call
    <2>3. r.todo \subseteq 1 .. dropletsMade
      BY <2>2, <1>2, <1>7
    <2> HIDE DEF r
    <2> QED  BY <1>2, <1>6, <1>7, <2>1, <2>3
  <1>8. ASSUME NEW c \in Callers, Dr!Ends(c), dropletsMade' = dropletsMade,
               droplets' \subseteq Dr!Droplet, projects' = projects, sshkey' \in BOOLEAN,
               overlaps' \subseteq DropletNames, doomed' \subseteq Dr!Droplet
        PROVE  Dr!TypeOK'
    <2>1. Dr!Idle.todo = {}
      BY DEF Dr!Idle
    <2> QED  BY <1>2, <1>6, <1>8, <2>1 DEF Dr!Ends
  <1>9. ASSUME NEW c \in Callers, Dr!Deploy(c) PROVE Dr!TypeOK'
    <2>1. PICK name \in DropletNames, p \in projects \cup {Default}, delete \in BOOLEAN :
            deploys' = [deploys EXCEPT ![c] =
              [at |-> "key", name |-> name, project |-> p, delete |-> delete, todo |-> {}]]
      BY <1>9 DEF Dr!Deploy, Dr!Asked
    <2> QED  BY <1>2, <1>6, <1>9, <2>1 DEF Dr!Deploy
  <1>10. ASSUME NEW c \in Callers, Dr!FindKey(c) PROVE Dr!TypeOK'
    BY <1>2, <1>7, <1>10 DEF Dr!FindKey
  <1>11. ASSUME NEW c \in Callers, Dr!MakeKey(c) PROVE Dr!TypeOK'
    BY <1>2, <1>7, <1>8, <1>11 DEF Dr!MakeKey
  <1>12. ASSUME NEW c \in Callers, Dr!Check(c) PROVE Dr!TypeOK'
    <2> DEFINE near == {d \in Callers \ {c} : Dr!Deploying(d)
                          /\ Lower[deploys[d].name] = Lower[deploys[c].name]}
    <2>1. \A d \in near : deploys[d].name \in DropletNames
      BY DEF DropletsInv, Named, Dr!Deploying
    <2>2. \A n \in DropletNames : Lower[n] \in DropletNames
      BY ClientsAssumption DEF ClientsAssumption, Dr!DropletsAssumption
    <2>3. overlaps' = overlaps \cup {Lower[deploys[d].name] : d \in near}
      BY <1>12 DEF Dr!Check
    <2>4. overlaps' \subseteq DropletNames
      BY <1>2, <2>1, <2>2, <2>3
    <2> QED  BY <1>2, <1>7, <1>12, <2>4 DEF Dr!Check
  <1>13. ASSUME NEW c \in Callers, Dr!Get(c) PROVE Dr!TypeOK'
    <2>1. UNCHANGED <<droplets, dropletsMade, projects, sshkey, overlaps, doomed>>
      BY <1>13 DEF Dr!Get
    <2>2. CASE Dr!Ends(c)
      BY <1>2, <1>8, <2>1, <2>2
    <2>3. CASE \E d \in Dr!Namesakes(deploys[c].name) :
                 deploys' = [deploys EXCEPT ![c].at = "destroy", ![c].todo = {d.id}]
      <3>1. PICK d \in Dr!Namesakes(deploys[c].name) :
              deploys' = [deploys EXCEPT ![c].at = "destroy", ![c].todo = {d.id}]
        BY <2>3
      <3> DEFINE r == [deploys[c] EXCEPT !.at = "destroy", !.todo = {d.id}]
      <3>2. deploys' = [deploys EXCEPT ![c] = r]
        BY <3>1, <1>2
      <3>3. r.todo = {d.id}
        BY <1>2 DEF Call
      <3>4. d.id \in 1 .. dropletsMade
        BY <1>3 DEF Dr!Namesakes
      <3>5. r.todo \subseteq 1 .. dropletsMade
        BY <3>3, <3>4, <2>1
      <3> HIDE DEF r
      <3> QED  BY <1>2, <1>6, <2>1, <3>2, <3>5
    <2> QED  BY <1>13, <2>2, <2>3 DEF Dr!Get
  <1>14. ASSUME NEW c \in Callers, Dr!Destroy(c) PROVE Dr!TypeOK'
    <2>1. droplets' \subseteq Dr!Droplet /\ (Dr!Goes(c, "look up") \/ Dr!Ends(c))
      BY <1>2, <1>14 DEF Dr!Destroy
    <2> QED  BY <1>2, <1>7, <1>8, <1>14, <2>1 DEF Dr!Destroy
  <1>15. ASSUME NEW c \in Callers, Dr!LookUp(c) PROVE Dr!TypeOK'
    BY <1>2, <1>7, <1>8, <1>15 DEF Dr!LookUp
  <1>16. ASSUME NEW c \in Callers, Dr!Create(c) PROVE Dr!TypeOK'
    <2> DEFINE new == [id |-> dropletsMade + 1, name |-> deploys[c].name, project |-> Default]
               r == IF deploys[c].project = Default THEN Dr!Idle
                    ELSE [deploys[c] EXCEPT !.at = "assign", !.todo = {dropletsMade + 1}]
    <2>1. /\ dropletsMade' = dropletsMade + 1 /\ dropletsMade < MaxDroplets
          /\ droplets' = droplets \cup {new} /\ deploys' = [deploys EXCEPT ![c] = r]
          /\ UNCHANGED <<projects, sshkey, overlaps, doomed>>
      BY <1>2, <1>16 DEF Dr!Create, Dr!At, Dr!Ends
    <2>2. deploys[c].name \in DropletNames
      BY <1>16 DEF Dr!Create, Dr!At, DropletsInv, Named
    <2>3. dropletsMade + 1 \in 1 .. MaxDroplets /\ dropletsMade' \in Nat
      BY <1>2, <2>1
    <2>4. new \in Dr!Droplet
      BY <2>2, <2>3 DEF Dr!Droplet
    <2>5. r.todo \subseteq {dropletsMade + 1}
      <3>1. CASE deploys[c].project = Default
        BY <3>1 DEF Dr!Idle
      <3>2. CASE deploys[c].project # Default
        BY <3>2, <1>2 DEF Call
      <3> QED  BY <3>1, <3>2
    <2> HIDE DEF new, r
    <2>6. r.todo \subseteq 1 .. dropletsMade'
      BY <2>1, <2>5, <1>2
    <2>7. droplets' \subseteq Dr!Droplet /\ dropletsMade <= dropletsMade' /\ dropletsMade' <= MaxDroplets
      BY <1>2, <2>1, <2>4
    <2> QED  BY <1>2, <1>5, <2>1, <2>3, <2>6, <2>7
  <1>17. ASSUME NEW c \in Callers, Dr!Assign(c) PROVE Dr!TypeOK'
    <2>1. droplets' \subseteq Dr!Droplet
      <3> SUFFICES ASSUME NEW d \in droplets,
                          deploys[c].project \in projects
                   PROVE  [d EXCEPT !.project = deploys[c].project] \in Dr!Droplet
        BY <1>2, <1>17 DEF Dr!Assign
      <3> QED  BY <1>2 DEF Dr!Droplet
    <2> QED  BY <1>2, <1>8, <1>17, <2>1 DEF Dr!Assign
  <1>18. ASSUME NEW c \in Callers, Dr!DeleteRemote(c) PROVE Dr!TypeOK'
    <2>1. UNCHANGED <<droplets, dropletsMade, projects, sshkey, overlaps, doomed>>
      BY <1>18 DEF Dr!DeleteRemote
    <2>2. PICK name \in DropletNames : \E d \in Dr!Namesakes(name) :
            deploys' = [deploys EXCEPT ![c] =
                          [Dr!Idle EXCEPT !.at = "delete", !.name = name, !.todo = {d.id}]]
      BY <1>18 DEF Dr!DeleteRemote
    <2>3. PICK d \in Dr!Namesakes(name) :
            deploys' = [deploys EXCEPT ![c] =
                          [Dr!Idle EXCEPT !.at = "delete", !.name = name, !.todo = {d.id}]]
      BY <2>2
    <2> DEFINE r == [Dr!Idle EXCEPT !.at = "delete", !.name = name, !.todo = {d.id}]
    <2>4. r.todo = {d.id}
      BY DEF Dr!Idle
    <2>5. d.id \in 1 .. dropletsMade
      BY <1>3 DEF Dr!Namesakes
    <2>6. r.todo \subseteq 1 .. dropletsMade /\ deploys' = [deploys EXCEPT ![c] = r]
      BY <2>1, <2>3, <2>4, <2>5
    <2> HIDE DEF r
    <2> QED  BY <1>2, <1>6, <2>1, <2>6
  <1>19. ASSUME NEW c \in Callers, Dr!DeleteAll(c) PROVE Dr!TypeOK'
    <2>1. UNCHANGED <<droplets, dropletsMade, projects, sshkey, overlaps, doomed>>
      BY <1>19 DEF Dr!DeleteAll
    <2>2. PICK p \in projects \cup {Default, "all"} :
            deploys' = [deploys EXCEPT ![c] =
              [Dr!Idle EXCEPT !.at = "delete all", !.todo = {d.id : d \in Dr!Doomed(p)}]]
      BY <1>19 DEF Dr!DeleteAll
    <2> DEFINE r == [Dr!Idle EXCEPT !.at = "delete all", !.todo = {d.id : d \in Dr!Doomed(p)}]
    <2>3. r.todo = {d.id : d \in Dr!Doomed(p)}
      BY DEF Dr!Idle
    <2>4. {d.id : d \in Dr!Doomed(p)} \subseteq 1 .. dropletsMade
      BY <1>3 DEF Dr!Doomed
    <2>5. r.todo \subseteq 1 .. dropletsMade /\ deploys' = [deploys EXCEPT ![c] = r]
      BY <2>1, <2>2, <2>3, <2>4
    <2> HIDE DEF r
    <2> QED  BY <1>2, <1>6, <2>1, <2>5
  <1>20. ASSUME NEW c \in Callers, Dr!DestroyNext(c) PROVE Dr!TypeOK'
    <2>1. PICK id \in deploys[c].todo :
            /\ droplets' = droplets \ Dr!Of(id)
            /\ doomed' = IF Dr!At(c, "delete all") THEN doomed \cup Dr!Of(id) ELSE doomed
            /\ IF Dr!Of(id) = {} \/ deploys[c].todo = {id} THEN Dr!Ends(c)
               ELSE deploys' = [deploys EXCEPT ![c].todo = @ \ {id}]
      BY <1>20 DEF Dr!DestroyNext
    <2>2. Dr!Of(id) \subseteq droplets
      BY DEF Dr!Of
    <2>3. /\ droplets' \subseteq Dr!Droplet /\ doomed' \subseteq Dr!Droplet
          /\ UNCHANGED <<dropletsMade, projects, sshkey, overlaps>>
      BY <1>2, <1>20, <2>1, <2>2 DEF Dr!DestroyNext
    <2>4. CASE Dr!Ends(c)
      BY <1>2, <1>8, <2>3, <2>4
    <2>5. CASE deploys' = [deploys EXCEPT ![c].todo = @ \ {id}]
      <3> DEFINE r == [deploys[c] EXCEPT !.todo = @ \ {id}]
      <3>1. deploys' = [deploys EXCEPT ![c] = r]
        BY <2>5, <1>2
      <3>2. r.todo = deploys[c].todo \ {id}
        BY <1>2 DEF Call
      <3>3. r.todo \subseteq 1 .. dropletsMade
        BY <3>2, <1>2, <2>3
      <3> HIDE DEF r
      <3> QED  BY <1>2, <1>6, <2>3, <3>1, <3>3
    <2> QED  BY <2>1, <2>4, <2>5
  <1>21. ASSUME NEW c \in Callers, Dr!Fails(c) PROVE Dr!TypeOK'
    BY <1>2, <1>8, <1>21 DEF Dr!Fails
  <1>22. ASSUME NEW p \in Projects, Dr!DeployProject(p) \/ Dr!DeleteProject(p) PROVE Dr!TypeOK'
    BY <1>2, <1>22 DEF Dr!DeployProject, Dr!DeleteProject, Dr!TypeOK
  <1>23. CASE UNCHANGED Dr!vars
    BY <1>23 DEF Dr!vars, Dr!TypeOK
  <1> QED  BY <1>9, <1>10, <1>11, <1>12, <1>13, <1>14, <1>15, <1>16, <1>17, <1>18, <1>19, <1>20,
              <1>21, <1>22, <1>23 DEF Dr!Next

\* The account of droplets stays typed.
LEMMA DropletsTyped == Spec => []Dr!TypeOK
  BY DropletsInit, DropletsNext, DropletsTypedInit, DropletsTypedNext, DropletsSteps, PTL DEF Dr!Spec

-----------------------------------------------------------------------------
(* Circles.                                                                *)

Stages == {"idle", "create", "comments", "tasks", "last"}
Mover == [at : Stages, item : Nat, copy : Nat, keep : BOOLEAN,
          todo : SUBSET Ci!Parts, read : SUBSET Ci!Parts]
CirclesTypes ==
    /\ made \in Nat /\ moves \in [Callers -> Mover]
    /\ items \subseteq Ci!Item
    /\ \A i \in items : i.id <= made /\ i.parts \subseteq Ci!PartsOf(i.kind)
    /\ \A i, j \in items : i.id = j.id => i = j

\* What a mover that is at r has read of an item of the kind.
ReadOf(r, kind) ==
    \/ kind = "story" /\ r.at \in {"create", "comments"} /\ r.read = {}
    \/ kind = "story" /\ r.at = "tasks" /\ r.read = Comments
    \/ kind = "story" /\ r.at = "last" /\ r.read = Comments \cup ItemTasks
    \/ kind # "story" /\ r.at \in {"create", "last"} /\ r.read = Fields
MoverFits(m) ==
    LET r == moves[m]
    IN  /\ r.at = "idle" => r = Ci!Idle
        /\ r.todo \subseteq r.read
        /\ r.item <= made
        /\ r.at = "create" => r.copy = 0
        /\ r.copy # 0 => r.item < r.copy /\ r.copy <= made
        /\ \A i \in items : i.id \in {r.item, r.copy} => ReadOf(r, i.kind)
        /\ \A i, j \in items : i.id = r.item /\ j.id = r.copy => i.of = j.of
        /\ \A n \in Callers : r.copy = moves[n].copy /\ r.copy # 0 => m = n

\* An item that no mover is making, and so none deletes when a request fails.
Settled(i) == \A m \in Callers : moves[m].copy # i.id
\* Of the parts p of an item i that the mover has read, one it has nothing left to do for is in
\* its copy, or in a later item that it will not delete.
Elsewhere(m, i, p) ==
    \E j \in items : j.id > i.id /\ j.of = i.of /\ p \in j.parts /\ (Settled(j) \/ j.id = moves[m].copy)
Copied(m) ==
    \A i \in items : i.id = moves[m].item =>
       \A p \in (i.parts \cap moves[m].read) \ moves[m].todo :
          <<i.of, p>> \notin late => Elsewhere(m, i, p)
Held(part) == \E i \in items : Settled(i) /\ \E p \in i.parts : part = <<i.of, p>>
CirclesInv ==
    /\ CirclesTypes
    /\ \A m \in Callers : MoverFits(m)
    /\ \A m \in Callers : Copied(m)
    /\ \A part \in written \ late : Held(part)

\* No move is one that is idle.
LEMMA IdleTyped == Ci!Idle \in Mover
  <1>1. "idle" \in Stages /\ 0 \in Nat /\ FALSE \in BOOLEAN /\ {} \in SUBSET Ci!Parts
    BY DEF Stages
  <1> QED  BY <1>1 DEF Ci!Idle, Mover

\* The invariant of the server of circles holds at first.
LEMMA CirclesInit == Ci!Init => CirclesInv
  <1> SUFFICES ASSUME Ci!Init PROVE CirclesInv
    OBVIOUS
  <1>1. items = {} /\ made = 0 /\ moves = [m \in Callers |-> Ci!Idle] /\ written = {}
    BY DEF Ci!Init
  <1>2. Ci!Idle \in Mover
    BY IdleTyped
  <1>3. CirclesTypes
    BY <1>1, <1>2 DEF CirclesTypes
  <1>4. \A m \in Callers : MoverFits(m)
    <2> SUFFICES ASSUME NEW m \in Callers PROVE MoverFits(m)
      OBVIOUS
    <2>1. /\ moves[m].at = "idle" /\ moves[m] = Ci!Idle /\ moves[m].todo = {} /\ moves[m].item = 0
          /\ moves[m].copy = 0
      BY <1>1 DEF Ci!Idle
    <2> QED  BY <1>1, <2>1 DEF MoverFits
  <1> QED  BY <1>1, <1>3, <1>4 DEF CirclesInv, Copied

\* The item of an identifier.
LEMMA TheItem ==
  ASSUME CirclesTypes, NEW id, Ci!There(id)
  PROVE  Ci!The(id) \in items /\ Ci!The(id).id = id
  BY DEF Ci!There, Ci!The, CirclesTypes

\* What is true of an item that is there.
LEMMA ItemFacts ==
  ASSUME CirclesTypes, NEW i \in items
  PROVE  /\ i.id \in Nat \ {0} /\ i.of \in Ci!Ids /\ i.id \in Ci!Ids /\ i.id <= made
         /\ i.kind \in {"story", "issue"} /\ i.circle \in Circle /\ i.parts \in SUBSET Ci!Parts
         /\ i.parts \subseteq Ci!PartsOf(i.kind)
         /\ i = [id |-> i.id, kind |-> i.kind, circle |-> i.circle, of |-> i.of, parts |-> i.parts]
  <1>1. MaxItems \in Nat
    BY ClientsAssumption DEF ClientsAssumption, Ci!CirclesAssumption
  <1>2. i \in Ci!Item
    BY DEF CirclesTypes
  <1>3. /\ i.of \in Ci!Ids /\ i.id \in Ci!Ids
        /\ i.kind \in {"story", "issue"} /\ i.circle \in Circle /\ i.parts \in SUBSET Ci!Parts
        /\ i = [id |-> i.id, kind |-> i.kind, circle |-> i.circle, of |-> i.of, parts |-> i.parts]
    BY <1>2 DEF Ci!Item
  <1>4. i.id \in Nat \ {0}
    BY <1>1, <1>3 DEF Ci!Ids
  <1> QED  BY <1>3, <1>4 DEF CirclesTypes

\* What there is of a mover.
LEMMA MoverFacts ==
  ASSUME CirclesTypes, NEW m \in Callers
  PROVE  moves[m].item \in Nat /\ moves[m].copy \in Nat /\ moves[m] \in Mover
  BY DEF CirclesTypes, Mover

\* The movers that change change only one, and only the items are as they were.
LEMMA MoverSteps ==
  ASSUME CirclesInv, NEW m \in Callers, NEW r \in Mover,
         moves' = [moves EXCEPT ![m] = r], UNCHANGED <<items, made, written, late>>,
         (MoverFits(m) /\ Copied(m))',
         r.copy \in {0, moves[m].copy}
  PROVE  CirclesInv'
  <1>1. CirclesTypes /\ CirclesTypes'
    BY DEF CirclesInv, CirclesTypes
  <1>2. moves'[m] = r /\ \A n \in Callers \ {m} : moves'[n] = moves[n]
    BY <1>1 DEF CirclesTypes
  <1>3. \A i \in items : Settled(i) => Settled(i)'
    <2> SUFFICES ASSUME NEW i \in items, Settled(i), NEW n \in Callers PROVE moves'[n].copy # i.id
      BY DEF Settled
    <2>1. i.id # 0
      BY <1>1, ItemFacts
    <2> QED  BY <1>2, <2>1 DEF Settled
  <1>4. \A n \in Callers : MoverFits(n)'
    <2> SUFFICES ASSUME NEW n \in Callers, n # m PROVE MoverFits(n)'
      OBVIOUS
    <2>1. MoverFits(n) /\ moves'[n] = moves[n]
      BY <1>2 DEF CirclesInv
    <2> QED  BY <1>2, <2>1 DEF MoverFits
  <1>5. \A n \in Callers : Copied(n)'
    <2> SUFFICES ASSUME NEW n \in Callers, n # m PROVE Copied(n)'
      OBVIOUS
    <2>1. Copied(n) /\ moves'[n] = moves[n]
      BY <1>2 DEF CirclesInv
    <2>2. ASSUME NEW i \in items, NEW p, Elsewhere(n, i, p) PROVE Elsewhere(n, i, p)'
      BY <1>3, <2>1, <2>2 DEF Elsewhere
    <2> QED  BY <2>1, <2>2 DEF Copied
  <1>6. \A part \in written \ late : Held(part)'
    BY <1>3 DEF CirclesInv, Held
  <1> QED  BY <1>1, <1>4, <1>5, <1>6 DEF CirclesInv

\* A mover that is idle fits, and nothing is asked of it.
LEMMA IdleFits ==
  ASSUME CirclesInv, NEW m \in Callers, moves' = [moves EXCEPT ![m] = Ci!Idle],
         made' = made, \A i \in items' : i.id # 0
  PROVE  (MoverFits(m) /\ Copied(m))'
  <1>1. moves'[m] = Ci!Idle /\ made \in Nat
    BY DEF CirclesInv, CirclesTypes
  <1> QED  BY <1>1 DEF MoverFits, Copied, Ci!Idle

\* An item gets a part, and the mover m, if any, has one less to do.
LEMMA Gaining ==
  ASSUME CirclesInv, NEW i \in items, NEW p \in Ci!PartsOf(i.kind), NEW missed \in BOOLEAN,
         Ci!Gains(i, p, missed), Ci!Missed(i, p) => missed, made' = made,
         written' \subseteq written \cup {<<i.of, p>>},
         moves' \in [Callers -> Mover],
         \A m \in Callers : \/ moves'[m] = moves[m]
                            \/ /\ moves[m].copy = i.id /\ p \in moves[m].todo
                               /\ moves'[m] = [moves[m] EXCEPT !.todo = @ \ {p}],
         ~missed /\ <<i.of, p>> \notin written => Settled(i) \/ written' = written
  PROVE  CirclesInv'
  <1> DEFINE new == [i EXCEPT !.parts = @ \cup {p}]
  <1>0. CirclesTypes /\ (\A m \in Callers : MoverFits(m) /\ Copied(m)) /\ (\A part \in written \ late : Held(part))
    BY DEF CirclesInv
  <1>1. items' = (items \ {i}) \cup {new} /\ late \subseteq late' /\ (missed => <<i.of, p>> \in late')
    BY DEF Ci!Gains
  <1>2. p \in Ci!Parts
    BY DEF Ci!PartsOf, Ci!Parts
  <1>3. /\ new \in Ci!Item /\ new.id = i.id /\ new.kind = i.kind /\ new.of = i.of
        /\ new.parts = i.parts \cup {p}
    BY <1>0, <1>2, ItemFacts DEF Ci!Item
  <1> HIDE DEF new
  <1>4. \A j \in items : \E g \in items' : g.id = j.id /\ g.of = j.of /\ g.kind = j.kind
                                        /\ j.parts \subseteq g.parts
    BY <1>1, <1>3
  <1>5. \A g \in items' : \E j \in items : g.id = j.id /\ g.of = j.of /\ g.kind = j.kind
                                        /\ (g.parts = j.parts \/ (j = i /\ g.parts = i.parts \cup {p}))
    BY <1>1, <1>3
  <1>6. CirclesTypes'
    <2>1. items' \subseteq Ci!Item
      BY <1>0, <1>1, <1>3 DEF CirclesTypes
    <2>2. \A g \in items' : g.id <= made' /\ g.parts \subseteq Ci!PartsOf(g.kind)
      BY <1>0, <1>5 DEF CirclesTypes
    <2>3. \A g, h \in items' : g.id = h.id => g = h
      BY <1>0, <1>1, <1>3 DEF CirclesTypes
    <2> QED  BY <1>0, <2>1, <2>2, <2>3 DEF CirclesTypes
  <1>7. \A m \in Callers : /\ moves'[m].at = moves[m].at /\ moves'[m].item = moves[m].item
                           /\ moves'[m].copy = moves[m].copy /\ moves'[m].read = moves[m].read
                           /\ moves'[m].todo \subseteq moves[m].todo
                           /\ moves'[m].todo # moves[m].todo =>
                                /\ moves[m].copy = i.id /\ moves'[m].todo = moves[m].todo \ {p}
    BY <1>0, MoverFacts DEF Mover
  <1>8. \A m \in Callers : MoverFits(m)'
    <2> SUFFICES ASSUME NEW m \in Callers PROVE MoverFits(m)'
      OBVIOUS
    <2>1. MoverFits(m)
      BY <1>0
    <2>2. moves'[m].at = "idle" => moves'[m] = Ci!Idle
      <3>1. CASE moves'[m] = moves[m]
        BY <2>1, <3>1 DEF MoverFits
      <3>2. CASE moves'[m] # moves[m]
        <4>1. p \in moves[m].todo /\ moves[m].at = moves'[m].at
          BY <1>7, <3>2
        <4> QED  BY <2>1, <4>1 DEF MoverFits, Ci!Idle
      <3> QED  BY <3>1, <3>2
    <2>3. \A g \in items' : g.id \in {moves'[m].item, moves'[m].copy} => ReadOf(moves'[m], g.kind)
      BY <1>5, <1>7, <2>1 DEF MoverFits, ReadOf
    <2>4. \A g, h \in items' : g.id = moves'[m].item /\ h.id = moves'[m].copy => g.of = h.of
      BY <1>5, <1>7, <2>1 DEF MoverFits
    <2> QED  BY <1>7, <2>1, <2>2, <2>3, <2>4 DEF MoverFits
  <1>9. \A j, g : j.id = g.id /\ Settled(j) => Settled(g)'
    BY <1>7 DEF Settled
  <1>10. ASSUME NEW m \in Callers, NEW j \in items, NEW q, Elsewhere(m, j, q),
                NEW g \in items', g.id = j.id, g.of = j.of
         PROVE  Elsewhere(m, g, q)'
    <2>1. PICK k \in items : /\ k.id > j.id /\ k.of = j.of /\ q \in k.parts
                             /\ Settled(k) \/ k.id = moves[m].copy
      BY <1>10 DEF Elsewhere
    <2>2. PICK h \in items' : h.id = k.id /\ h.of = k.of /\ q \in h.parts
      BY <1>4, <2>1
    <2>3. h.id > g.id /\ h.of = g.of /\ (Settled(h)' \/ h.id = moves'[m].copy)
      BY <1>7, <1>9, <1>10, <2>1, <2>2
    <2> QED  BY <2>2, <2>3 DEF Elsewhere
  <1>11. \A m \in Callers : Copied(m)'
    <2> SUFFICES ASSUME NEW m \in Callers, NEW g \in items', g.id = moves'[m].item,
                        NEW q \in (g.parts \cap moves'[m].read) \ moves'[m].todo,
                        <<g.of, q>> \notin late'
                 PROVE  Elsewhere(m, g, q)'
      BY DEF Copied
    <2>1. PICK j \in items : /\ g.id = j.id /\ g.of = j.of /\ g.kind = j.kind
                             /\ (g.parts = j.parts \/ (j = i /\ g.parts = i.parts \cup {p}))
      BY <1>5
    <2>2. j.id = moves[m].item /\ q \in moves[m].read /\ <<j.of, q>> \notin late
      BY <1>1, <1>7, <2>1
    <2>3. q \in j.parts
      <3> SUFFICES ASSUME q \notin j.parts PROVE FALSE
        OBVIOUS
      <3>1. j = i /\ q = p
        BY <2>1
      <3>2. Ci!Missed(i, p)
        BY <2>2, <3>1 DEF Ci!Missed
      <3> QED  BY <1>1, <2>1, <3>1, <3>2
    <2>4. CASE q \notin moves[m].todo
      <3>1. Elsewhere(m, j, q)
        BY <1>0, <2>2, <2>3, <2>4 DEF Copied
      <3> QED  BY <1>10, <2>1, <3>1
    <2>5. CASE q \in moves[m].todo
      <3>1. moves[m].copy = i.id /\ q = p
        BY <1>7, <2>5
      <3>2. MoverFits(m) /\ i.id # 0 /\ i.id \in Nat /\ j.id \in Nat
        BY <1>0, ItemFacts
      <3>3. i.id > j.id /\ i.of = j.of
        BY <2>2, <3>1, <3>2 DEF MoverFits
      <3>4. /\ new \in items' /\ new.id > g.id /\ new.of = g.of /\ q \in new.parts
            /\ new.id = moves'[m].copy
        BY <1>1, <1>3, <1>7, <2>1, <3>1, <3>3
      <3> QED  BY <3>4 DEF Elsewhere
    <2> QED  BY <2>4, <2>5
  <1>12. ASSUME NEW part, part \in written' \ late' PROVE Held(part)'
    <2>1. CASE part \in written
      <3>1. PICK j \in items : Settled(j) /\ \E q \in j.parts : part = <<j.of, q>>
        BY <1>0, <1>1, <1>12, <2>1 DEF Held
      <3>2. PICK g \in items' : g.id = j.id /\ g.of = j.of /\ j.parts \subseteq g.parts
        BY <1>4, <3>1
      <3> QED  BY <1>9, <3>1, <3>2 DEF Held
    <2>2. CASE part \notin written
      <3>1. part = <<i.of, p>> /\ ~missed /\ Settled(i)
        BY <1>1, <1>12, <2>2
      <3>2. new \in items' /\ Settled(new)' /\ p \in new.parts /\ part = <<new.of, p>>
        BY <1>1, <1>3, <1>9, <3>1
      <3> QED  BY <3>2 DEF Held
    <2> QED  BY <2>1, <2>2
  <1> QED  BY <1>6, <1>8, <1>11, <1>12 DEF CirclesInv

\* A new item is made, by the mover m or by none.
LEMMA Making ==
  ASSUME CirclesInv, NEW kind \in {"story", "issue"}, NEW k \in Circle, NEW of \in Ci!Ids \cup {0},
         Ci!New(kind, k, of), UNCHANGED <<written, late>>, moves' \in [Callers -> Mover],
         \A m \in Callers : \/ moves'[m] = moves[m]
                            \/ /\ moves[m].copy = 0 /\ moves'[m].copy = made + 1
                               /\ moves'[m].item = moves[m].item
                               /\ moves'[m].read = moves[m].read /\ moves'[m].todo = moves[m].todo
                               /\ moves'[m].at \notin {"idle", "create"} /\ ReadOf(moves'[m], kind)
                               /\ \A i \in items : i.id = moves[m].item => i.of = of /\ i.kind = kind
                               /\ \A n \in Callers \ {m} : moves'[n] = moves[n]
  PROVE  CirclesInv'
  <1>0. CirclesTypes /\ (\A m \in Callers : MoverFits(m) /\ Copied(m)) /\ (\A part \in written \ late : Held(part))
    BY DEF CirclesInv
  <1> DEFINE new == [id |-> made + 1, kind |-> kind, circle |-> k,
                     of |-> IF of = 0 THEN made + 1 ELSE of, parts |-> {}]
  <1>1. made' = made + 1 /\ made < MaxItems /\ items' = items \cup {new}
    BY DEF Ci!New
  <1>2. made \in Nat /\ MaxItems \in Nat /\ made + 1 \in Ci!Ids
    BY <1>0, <1>1, ClientsAssumption DEF CirclesTypes, ClientsAssumption, Ci!CirclesAssumption, Ci!Ids
  <1>3. new \in Ci!Item /\ new.id = made + 1 /\ new.kind = kind /\ new.parts = {} /\ (of # 0 => new.of = of)
    BY <1>2 DEF Ci!Item
  <1> HIDE DEF new
  <1>4. \A i \in items : i.id \in Nat \ {0} /\ i.id <= made /\ i.id # made + 1
    BY <1>0, <1>2, ItemFacts
  <1>5. CirclesTypes'
    <2>1. items' \subseteq Ci!Item
      BY <1>0, <1>1, <1>3 DEF CirclesTypes
    <2>2. \A g \in items' : g.id <= made' /\ g.parts \subseteq Ci!PartsOf(g.kind)
      BY <1>0, <1>1, <1>2, <1>3, <1>4 DEF CirclesTypes
    <2>3. \A g, h \in items' : g.id = h.id => g = h
      BY <1>0, <1>1, <1>3, <1>4 DEF CirclesTypes
    <2> QED  BY <1>1, <1>2, <2>1, <2>2, <2>3 DEF CirclesTypes
  <1>6. \A m \in Callers : /\ MoverFits(m) /\ moves[m].item \in Nat /\ moves[m].copy \in Nat
                           /\ moves[m].item <= made /\ moves[m].copy <= made
    BY <1>0, <1>2, MoverFacts DEF MoverFits
  <1>7. \A i \in items : Settled(i) => Settled(i)'
    BY <1>4 DEF Settled
  <1>8. ASSUME NEW m \in Callers PROVE MoverFits(m)'
    <2>1. CASE moves'[m] = moves[m]
      <3>1. \A i \in items' : i.id \in {moves[m].item, moves[m].copy} => i \in items
        BY <1>1, <1>2, <1>3, <1>6
      <3>2. ASSUME NEW n \in Callers, moves'[n].copy = moves[m].copy, moves[m].copy # 0 PROVE m = n
        <4>1. moves'[n].copy # made + 1
          BY <1>2, <1>6, <3>2
        <4> QED  BY <1>6, <3>2, <4>1 DEF MoverFits
      <3>3. moves[m].item <= made' /\ (moves[m].copy # 0 => moves[m].copy <= made')
        BY <1>1, <1>2, <1>6
      <3> QED  BY <1>6, <2>1, <3>1, <3>2, <3>3 DEF MoverFits
    <2>2. CASE moves'[m] # moves[m]
      <3>1. /\ moves[m].copy = 0 /\ moves'[m].copy = made + 1
            /\ moves'[m].item = moves[m].item
            /\ moves'[m].read = moves[m].read /\ moves'[m].todo = moves[m].todo
            /\ moves'[m].at \notin {"idle", "create"} /\ ReadOf(moves'[m], kind)
            /\ \A i \in items : i.id = moves[m].item => i.of = of /\ i.kind = kind
            /\ \A n \in Callers \ {m} : moves'[n] = moves[n]
        BY <2>2
      <3>2. \A i \in items' : i.id = moves[m].item => i \in items
        BY <1>1, <1>2, <1>3, <1>6
      <3>3. \A i \in items' : i.id = made + 1 => i = new
        BY <1>1, <1>4
      <3>4. \A i \in items' : i.id \in {moves'[m].item, moves'[m].copy} => ReadOf(moves'[m], i.kind)
        BY <1>3, <3>1, <3>2, <3>3
      <3>5. \A i, j \in items' : i.id = moves'[m].item /\ j.id = moves'[m].copy => i.of = j.of
        <4>1. \A i \in items : i.of # 0
          BY <1>0, <1>2, ItemFacts DEF Ci!Ids
        <4> QED  BY <1>3, <3>1, <3>2, <3>3, <4>1
      <3>6. \A n \in Callers : moves'[m].copy = moves'[n].copy => m = n
        <4>1. \A n \in Callers : moves[n].copy # made + 1
          BY <1>2, <1>6
        <4> QED  BY <3>1, <4>1
      <3>7. /\ moves'[m].item <= made' /\ moves'[m].item < moves'[m].copy
            /\ moves'[m].copy <= made'
        BY <1>1, <1>2, <1>6, <3>1
      <3>8. moves'[m].todo \subseteq moves'[m].read
        BY <1>6, <3>1 DEF MoverFits
      <3> QED  BY <3>1, <3>4, <3>5, <3>6, <3>7, <3>8 DEF MoverFits
    <2> QED  BY <2>1, <2>2
  <1>9. ASSUME NEW m \in Callers PROVE Copied(m)'
    <2> SUFFICES ASSUME NEW i \in items', i.id = moves'[m].item,
                        NEW q \in (i.parts \cap moves'[m].read) \ moves'[m].todo,
                        <<i.of, q>> \notin late
                 PROVE  Elsewhere(m, i, q)'
      BY DEF Copied
    <2>1. moves'[m].item = moves[m].item /\ moves'[m].read = moves[m].read /\ moves'[m].todo = moves[m].todo
      OBVIOUS
    <2>2. i \in items
      BY <1>1, <1>3
    <2>3. Elsewhere(m, i, q)
      BY <1>0, <2>1, <2>2 DEF Copied
    <2>4. PICK j \in items : /\ j.id > i.id /\ j.of = i.of /\ q \in j.parts
                             /\ Settled(j) \/ j.id = moves[m].copy
      BY <2>3 DEF Elsewhere
    <2>5. j \in items' /\ (Settled(j)' \/ j.id = moves'[m].copy)
      <3>1. j.id # 0
        BY <1>4
      <3> QED  BY <1>1, <1>7, <2>4, <3>1
    <2> QED  BY <2>4, <2>5 DEF Elsewhere
  <1>10. \A part \in written \ late : Held(part)'
    BY <1>0, <1>1, <1>7 DEF Held
  <1> QED  BY <1>5, <1>8, <1>9, <1>10 DEF CirclesInv

\* The mover m ends, and an item may go.
LEMMA Removing ==
  ASSUME CirclesInv, NEW m \in Callers, moves' = [moves EXCEPT ![m] = Ci!Idle],
         UNCHANGED <<made, written, late>>, items' \subseteq items,
         \A i \in items \ items' :
            \/ i.id = moves[m].copy
            \/ /\ i.id = moves[m].item
               /\ \A p \in i.parts : <<i.of, p>> \notin late => Elsewhere(m, i, p)
               /\ items' = {j \in items : j.id # i.id}
  PROVE  CirclesInv'
  <1>0. CirclesTypes /\ (\A n \in Callers : MoverFits(n) /\ Copied(n)) /\ (\A part \in written \ late : Held(part))
    BY DEF CirclesInv
  <1>1. CirclesTypes'
    <2>1. Ci!Idle \in Mover
      BY IdleTyped
    <2> QED  BY <1>0, <2>1 DEF CirclesTypes
  <1>2. moves'[m] = Ci!Idle /\ \A n \in Callers \ {m} : moves'[n] = moves[n]
    BY <1>0 DEF CirclesTypes
  <1>3. \A i \in items : i.id \in Nat \ {0}
    BY <1>0, ItemFacts
  <1>4. (MoverFits(m) /\ Copied(m))'
    BY <1>3, IdleFits
  <1>5. ASSUME NEW n \in Callers \ {m} PROVE MoverFits(n)'
    BY <1>0, <1>2 DEF MoverFits, Ci!Idle
  <1>6. \A i \in items : Settled(i) \/ i.id = moves[m].copy =>
                           Settled(i)' 
    <2> SUFFICES ASSUME NEW i \in items, Settled(i) \/ i.id = moves[m].copy, NEW n \in Callers
                 PROVE  moves'[n].copy # i.id
      BY DEF Settled
    <2>1. CASE n = m
      BY <1>2, <1>3, <2>1 DEF Ci!Idle
    <2>2. CASE n # m
      BY <1>0, <1>2, <1>3, <2>2 DEF Settled, MoverFits
    <2> QED  BY <2>1, <2>2
  \* What was in an item that is kept or deleted, and is settled, is still in such an item.
  <1>7. ASSUME NEW j \in items, NEW p \in j.parts, Settled(j), <<j.of, p>> \notin late
        PROVE  \E h \in items' : h.id >= j.id /\ h.of = j.of /\ p \in h.parts /\ Settled(h)'
    <2>1. CASE j \in items'
      <3>1. j.id >= j.id
        BY <1>3
      <3> QED  BY <1>6, <1>7, <2>1, <3>1
    <2>2. CASE j \notin items'
      <3>1. j.id # moves[m].copy
        BY <1>7 DEF Settled
      <3>2. Elsewhere(m, j, p) /\ items' = {g \in items : g.id # j.id}
        BY <1>7, <2>2, <3>1
      <3>3. PICK h \in items : /\ h.id > j.id /\ h.of = j.of /\ p \in h.parts
                               /\ Settled(h) \/ h.id = moves[m].copy
        BY <3>2 DEF Elsewhere
      <3>4. h \in items' /\ h.id >= j.id
        BY <1>3, <3>2, <3>3
      <3> QED  BY <1>6, <3>3, <3>4
    <2> QED  BY <2>1, <2>2
  <1>8. ASSUME NEW n \in Callers \ {m} PROVE Copied(n)'
    <2> SUFFICES ASSUME NEW i \in items', i.id = moves'[n].item,
                        NEW p \in (i.parts \cap moves'[n].read) \ moves'[n].todo,
                        <<i.of, p>> \notin late
                 PROVE  Elsewhere(n, i, p)'
      BY DEF Copied
    <2>1. i \in items /\ Elsewhere(n, i, p)
      BY <1>0, <1>2 DEF Copied
    <2>2. PICK j \in items : /\ j.id > i.id /\ j.of = i.of /\ p \in j.parts
                             /\ Settled(j) \/ j.id = moves[n].copy
      BY <2>1 DEF Elsewhere
    <2>3. CASE Settled(j)
      <3>1. PICK h \in items' : h.id >= j.id /\ h.of = j.of /\ p \in h.parts /\ Settled(h)'
        BY <1>7, <2>2, <2>3
      <3>2. h.id > i.id /\ h.of = i.of
        BY <1>3, <2>1, <2>2, <3>1
      <3> QED  BY <3>1, <3>2 DEF Elsewhere
    <2>4. CASE j.id = moves[n].copy /\ j \in items'
      BY <1>2, <2>2, <2>4 DEF Elsewhere
    <2>5. CASE j.id = moves[n].copy /\ j \notin items'
      <3>1. j.id # moves[m].copy
        BY <1>0, <1>3, <2>5 DEF MoverFits
      <3>2. Elsewhere(m, j, p) /\ items' = {g \in items : g.id # j.id}
        BY <2>2, <2>5, <3>1
      <3>3. PICK h \in items : /\ h.id > j.id /\ h.of = j.of /\ p \in h.parts
                               /\ Settled(h) \/ h.id = moves[m].copy
        BY <3>2 DEF Elsewhere
      <3>4. h \in items' /\ h.id > i.id /\ h.of = i.of /\ Settled(h)'
        BY <1>3, <1>6, <2>1, <2>2, <3>2, <3>3
      <3> QED  BY <3>3, <3>4 DEF Elsewhere
    <2> QED  BY <2>2, <2>3, <2>4, <2>5
  <1>9. ASSUME NEW part \in written \ late PROVE Held(part)'
    <2>1. PICK j \in items : Settled(j) /\ \E q \in j.parts : part = <<j.of, q>>
      BY <1>0 DEF Held
    <2>2. PICK p \in j.parts : part = <<j.of, p>>
      BY <2>1
    <2>3. \E h \in items' : h.id >= j.id /\ h.of = j.of /\ p \in h.parts /\ Settled(h)'
      BY <1>7, <2>1, <2>2
    <2> QED  BY <2>2, <2>3 DEF Held
  <1> QED  BY <1>1, <1>4, <1>5, <1>8, <1>9 DEF CirclesInv

\* Every step of the server of circles keeps its invariant.
LEMMA CirclesNext ==
  ASSUME CirclesInv, [Ci!Next]_(Ci!vars)
  PROVE  CirclesInv'
  <1>1. /\ CirclesTypes /\ (\A m \in Callers : MoverFits(m) /\ Copied(m))
        /\ moves \in [Callers -> Mover] /\ made \in Nat
    BY DEF CirclesInv, CirclesTypes
  <1>2. ASSUME NEW k \in Circle, Ci!CreateCircle(k) PROVE CirclesInv'
    <2>1. UNCHANGED <<items, made, moves, written, late>>
      BY <1>2 DEF Ci!CreateCircle
    <2> QED  BY <2>1 DEF CirclesInv, CirclesTypes, MoverFits, Copied, Elsewhere, Settled, Held
  <1>3. ASSUME NEW k \in Circle, NEW kind \in {"story", "issue"}, Ci!CreateItem(kind, k)
        PROVE  CirclesInv'
    <2>1. Ci!New(kind, k, 0) /\ UNCHANGED <<moves, written, late>>
      BY <1>3 DEF Ci!CreateItem
    <2> QED  BY <1>1, <2>1, Making
  <1>4. ASSUME NEW i \in items, NEW p \in Ci!Parts, Ci!Write(i, p) PROVE CirclesInv'
    <2> DEFINE missed == Ci!Missed(i, p) \/ \E m \in Callers : moves[m].copy = i.id
    <2>1. /\ p \in Ci!PartsOf(i.kind) /\ written' = written \cup {<<i.of, p>>}
          /\ Ci!Gains(i, p, missed) /\ UNCHANGED <<made, moves>>
      BY <1>4 DEF Ci!Write
    <2>2. missed \in BOOLEAN /\ (Ci!Missed(i, p) => missed) /\ (~missed => Settled(i))
      BY DEF Settled, Ci!Missed
    <2> HIDE DEF missed
    <2> QED  BY <1>1, <2>1, <2>2, Gaining
  <1>5. ASSUME NEW m \in Callers, NEW i \in items, Ci!Move(m, i) PROVE CirclesInv'
    <2>1. PICK keep \in BOOLEAN : moves' = [moves EXCEPT ![m] = [Ci!Idle EXCEPT
              !.at = "create", !.item = i.id, !.keep = keep,
              !.todo = IF i.kind = "issue" THEN i.parts ELSE {},
              !.read = IF i.kind = "issue" THEN Fields ELSE {}]]
      BY <1>5 DEF Ci!Move
    <2>2. UNCHANGED <<items, made, written, late>> /\ moves[m].at = "idle"
      BY <1>5 DEF Ci!Move, Ci!Kept, Ci!At
    <2> DEFINE todo == IF i.kind = "issue" THEN i.parts ELSE {}
               read == IF i.kind = "issue" THEN Fields ELSE {}
               r == [Ci!Idle EXCEPT !.at = "create", !.item = i.id, !.keep = keep, !.todo = todo,
                                    !.read = read]
    <2>3. moves' = [moves EXCEPT ![m] = r]
      BY <2>1
    <2>4. /\ i.id \in Nat \ {0} /\ i.id <= made /\ i.parts \in SUBSET Ci!Parts
          /\ i.kind \in {"story", "issue"} /\ (i.kind = "issue" => i.parts \subseteq Fields)
      BY <1>1, ItemFacts DEF Ci!PartsOf
    <2>5. todo \in SUBSET Ci!Parts /\ read \in SUBSET Ci!Parts /\ todo \subseteq read
      BY <2>4 DEF Ci!Parts
    <2>6. (i.kind = "issue" => todo = i.parts /\ read = Fields) /\ (i.kind # "issue" => read = {})
      OBVIOUS
    <2> HIDE DEF todo, read
    <2>7. /\ r \in Mover /\ r.at = "create" /\ r.item = i.id /\ r.copy = 0 /\ r.todo = todo /\ r.read = read
      <3>1. "create" \in Stages
        BY DEF Stages
      <3>2. Ci!Idle.copy = 0
        BY DEF Ci!Idle
      <3> QED  BY <2>4, <2>5, <3>1, <3>2, IdleTyped DEF Mover
    <2> HIDE DEF r
    <2>8. moves'[m] = r
      BY <1>1, <2>3
    <2>9. MoverFits(m)'
      <3>1. \A j \in items : j.id \in {r.item, r.copy} => j = i
        BY <1>1, <2>7, ItemFacts DEF CirclesTypes
      <3>2. ReadOf(r, i.kind)
        BY <2>4, <2>6, <2>7 DEF ReadOf
      <3>3. \A j \in items : j.id # 0
        BY <1>1, ItemFacts
      <3> QED  BY <2>2, <2>4, <2>5, <2>7, <2>8, <3>1, <3>2, <3>3 DEF MoverFits
    <2>10. Copied(m)'
      <3>1. \A j \in items : j.id = r.item => j = i
        BY <1>1, <2>7 DEF CirclesTypes
      <3> QED  BY <2>2, <2>4, <2>5, <2>6, <2>7, <2>8, <3>1 DEF Copied
    <2> QED  BY <2>2, <2>3, <2>5, <2>7, <2>9, <2>10, MoverSteps
  <1>6. ASSUME NEW m \in Callers, NEW k \in Circle, Ci!Create(m, k) PROVE CirclesInv'
    <2> DEFINE i == Ci!The(moves[m].item)
    <2>1. /\ moves[m].at = "create" /\ Ci!There(moves[m].item) /\ Ci!New(i.kind, k, i.of)
          /\ moves' = [moves EXCEPT ![m].at = IF i.kind = "story" THEN "comments" ELSE "last",
                                    ![m].copy = made + 1]
          /\ UNCHANGED <<written, late>>
      BY <1>6 DEF Ci!Create, Ci!At
    <2>2. i \in items /\ i.id = moves[m].item
      BY <1>1, <2>1, TheItem
    <2> HIDE DEF i
    <2>3. i.kind \in {"story", "issue"} /\ i.of \in Ci!Ids
      BY <1>1, <2>2, ItemFacts
    <2>4. /\ moves[m].copy = 0 /\ ReadOf(moves[m], i.kind)
      BY <1>1, <2>1, <2>2 DEF MoverFits
    <2>5. moves[m] \in Mover /\ made + 1 \in Nat
      BY <1>1
    <2> DEFINE at == IF i.kind = "story" THEN "comments" ELSE "last"
               r == [moves[m] EXCEPT !.at = at, !.copy = made + 1]
    <2>6. moves' = [moves EXCEPT ![m] = r]
      BY <1>1, <2>1
    <2>7. at \in Stages /\ at = IF i.kind = "story" THEN "comments" ELSE "last"
      BY DEF Stages
    <2> HIDE DEF at
    <2>8. /\ r \in Mover /\ r.copy = made + 1 /\ r.item = moves[m].item /\ r.read = moves[m].read
          /\ r.todo = moves[m].todo /\ r.at = IF i.kind = "story" THEN "comments" ELSE "last"
      BY <2>5, <2>7 DEF Mover
    <2> HIDE DEF r
    <2>9. moves' \in [Callers -> Mover] /\ moves'[m] = r /\ \A n \in Callers \ {m} : moves'[n] = moves[n]
      BY <1>1, <2>6, <2>8
    <2>10. r.at \notin {"idle", "create"} /\ ReadOf(r, i.kind)
      BY <2>1, <2>4, <2>8 DEF ReadOf
    <2>11. \A j \in items : j.id = moves[m].item => j.of = i.of /\ j.kind = i.kind
      BY <1>1, <2>2 DEF CirclesTypes
    <2> QED  BY <2>1, <2>3, <2>4, <2>8, <2>9, <2>10, <2>11, Making
  <1>7. ASSUME NEW m \in Callers, NEW at, at \in Stages, NEW S \in SUBSET Ci!Parts,
               Ci!Reads(m, at, S, moves[m].item),
               \/ moves[m].at = "comments" /\ at = "tasks" /\ S = Comments
               \/ moves[m].at = "tasks" /\ at = "last" /\ S = ItemTasks /\ moves[m].todo = {}
        PROVE  CirclesInv'
    <2>1. Ci!There(moves[m].item)
      BY <1>7 DEF Ci!Reads
    <2>2. PICK i \in items : i.id = moves[m].item /\ i = Ci!The(moves[m].item)
      BY <1>1, <2>1, TheItem
    <2> DEFINE r == [moves[m] EXCEPT !.at = at, !.todo = i.parts \cap S, !.read = @ \cup S]
    <2>3. /\ UNCHANGED <<items, made, written, late>>
          /\ moves' = [moves EXCEPT ![m] = r]
      BY <1>1, <1>7, <2>2 DEF Ci!Reads, Ci!Kept
    <2>4. moves[m] \in Mover /\ MoverFits(m) /\ Copied(m) /\ ReadOf(moves[m], i.kind)
      BY <1>1, <2>2 DEF MoverFits
    <2>5. /\ r \in Mover /\ r.at = at /\ r.todo = i.parts \cap S /\ r.read = moves[m].read \cup S
          /\ r.item = moves[m].item /\ r.copy = moves[m].copy
      <3> DEFINE todo == i.parts \cap S
                 read == moves[m].read \cup S
      <3>1. todo \in SUBSET Ci!Parts /\ read \in SUBSET Ci!Parts
        BY <2>4 DEF Mover
      <3> HIDE DEF todo, read
      <3>2. [moves[m] EXCEPT !.at = at, !.todo = todo, !.read = read] \in Mover
        BY <1>7, <2>4, <3>1 DEF Mover
      <3>3. r = [moves[m] EXCEPT !.at = at, !.todo = todo, !.read = read]
        BY DEF todo, read
      <3> QED  BY <2>4, <3>2, <3>3 DEF Mover, todo, read
    <2> HIDE DEF r
    <2>6. moves'[m] = r
      BY <1>1, <2>3
    <2>7. moves[m].todo = {} /\ at \notin {"idle", "create"}
      BY <1>7, <2>4 DEF MoverFits, ReadOf
    <2>8. \A kind : ReadOf(moves[m], kind) => ReadOf(r, kind)
      BY <1>7, <2>5 DEF ReadOf
    <2>9. MoverFits(m)'
      <3>1. \A n \in Callers \ {m} : moves'[n] = moves[n]
        BY <1>1, <2>3
      <3> QED  BY <2>3, <2>4, <2>5, <2>6, <2>7, <2>8, <3>1 DEF MoverFits
    <2>10. Copied(m)'
      <3>1. \A j \in items : j.id = moves[m].item => j = i
        BY <1>1, <2>2 DEF CirclesTypes
      <3>2. \A j \in items : Settled(j) => Settled(j)'
        BY <1>1, <2>3, <2>5, <2>6 DEF Settled
      <3>3. ASSUME NEW p \in (i.parts \cap r.read) \ r.todo, <<i.of, p>> \notin late
            PROVE  Elsewhere(m, i, p)'
        <4>1. p \in moves[m].read /\ p \notin moves[m].todo
          BY <2>5, <2>7, <3>3
        <4>2. Elsewhere(m, i, p)
          BY <2>2, <2>4, <3>3, <4>1 DEF Copied
        <4> QED  BY <2>3, <2>5, <2>6, <3>2, <4>2 DEF Elsewhere
      <3> QED  BY <2>3, <2>2, <2>5, <2>6, <3>1, <3>3 DEF Copied
    <2> QED  BY <2>3, <2>5, <2>9, <2>10, MoverSteps
  <1>8. ASSUME NEW m \in Callers, Ci!ReadComments(m) PROVE CirclesInv'
    BY <1>7, <1>8 DEF Ci!ReadComments, Ci!At, Ci!Parts, Stages
  <1>9. ASSUME NEW m \in Callers, Ci!ReadTasks(m) PROVE CirclesInv'
    BY <1>7, <1>9 DEF Ci!ReadTasks, Ci!At, Ci!Parts, Stages
  <1>10. ASSUME NEW m \in Callers, Ci!AddPart(m) PROVE CirclesInv'
    <2> DEFINE copy == Ci!The(moves[m].copy)
    <2>1. /\ Ci!There(moves[m].copy) /\ UNCHANGED <<made, written>>
          /\ \E p \in moves[m].todo : /\ Ci!Gains(copy, p, Ci!Missed(copy, p))
                                       /\ moves' = [moves EXCEPT ![m].todo = @ \ {p}]
      BY <1>10 DEF Ci!AddPart
    <2>2. copy \in items /\ copy.id = moves[m].copy
      BY <1>1, <2>1, TheItem
    <2> HIDE DEF copy
    <2>3. PICK p \in moves[m].todo : /\ Ci!Gains(copy, p, Ci!Missed(copy, p))
                                     /\ moves' = [moves EXCEPT ![m].todo = @ \ {p}]
      BY <2>1
    <2>4. moves[m] \in Mover /\ p \in moves[m].read /\ ReadOf(moves[m], copy.kind) 
      BY <1>1, <2>2 DEF MoverFits
    <2>5. p \in Ci!PartsOf(copy.kind)
      BY <2>4 DEF ReadOf, Ci!PartsOf
    <2>6. [moves[m] EXCEPT !.todo = @ \ {p}] \in Mover
      BY <2>4 DEF Mover
    <2>7. /\ moves' \in [Callers -> Mover] /\ moves'[m] = [moves[m] EXCEPT !.todo = @ \ {p}]
          /\ \A n \in Callers \ {m} : moves'[n] = moves[n]
      BY <1>1, <2>3, <2>6
    <2>8. Ci!Missed(copy, p) \in BOOLEAN
      BY DEF Ci!Missed
    <2>9. Ci!Gains(copy, p, Ci!Missed(copy, p)) /\ written' = written /\ made' = made
      BY <2>1, <2>3
    <2>10. \A n \in Callers : \/ moves'[n] = moves[n]
                             \/ /\ moves[n].copy = copy.id /\ p \in moves[n].todo
                                /\ moves'[n] = [moves[n] EXCEPT !.todo = @ \ {p}]
      BY <2>2, <2>7
    <2> QED  BY <2>2, <2>5, <2>7, <2>8, <2>9, <2>10, Gaining
  <1>11. ASSUME NEW m \in Callers, Ci!DeleteOriginal(m) PROVE CirclesInv'
    <2>1. /\ moves[m].at = "last" /\ moves[m].todo = {} /\ UNCHANGED <<made, written, late>>
          /\ moves' = [moves EXCEPT ![m] = Ci!Idle]
          /\ items' = IF moves[m].keep THEN items ELSE {i \in items : i.id # moves[m].item}
      BY <1>11 DEF Ci!DeleteOriginal, Ci!At, Ci!Ends
    <2>2. items' \subseteq items /\ \A i \in items \ items' : i.id = moves[m].item
                                            /\ items' = {j \in items : j.id # i.id}
      BY <2>1
    <2>3. ASSUME NEW i \in items \ items', NEW p \in i.parts, <<i.of, p>> \notin late
          PROVE  Elsewhere(m, i, p)
      <3>1. ReadOf(moves[m], i.kind) /\ i.id = moves[m].item
        BY <1>1, <2>2 DEF MoverFits
      <3>2. i.parts \subseteq moves[m].read
        BY <1>1, <2>1, <3>1, ItemFacts DEF ReadOf, Ci!PartsOf
      <3> QED  BY <1>1, <2>1, <2>3, <3>1, <3>2 DEF Copied
    <2> QED  BY <2>1, <2>2, <2>3, Removing
  <1>12. ASSUME NEW m \in Callers, Ci!Fails(m) PROVE CirclesInv'
    <2>1. UNCHANGED <<items, made, written, late>> /\ moves' = [moves EXCEPT ![m] = Ci!Idle]
      BY <1>12 DEF Ci!Fails, Ci!Ends, Ci!Kept
    <2> QED  BY <2>1, Removing
  <1>13. ASSUME NEW m \in Callers, Ci!Undo(m) PROVE CirclesInv'
    <2>1. /\ UNCHANGED <<made, written, late>> /\ moves' = [moves EXCEPT ![m] = Ci!Idle]
          /\ items' = {i \in items : i.id # moves[m].copy}
      BY <1>13 DEF Ci!Undo, Ci!Ends
    <2> QED  BY <2>1, Removing
  <1>14. CASE UNCHANGED Ci!vars
    <2>1. UNCHANGED <<items, made, moves, written, late>>
      BY <1>14 DEF Ci!vars
    <2> QED  BY <2>1 DEF CirclesInv, CirclesTypes, MoverFits, Copied, Elsewhere, Settled, Held
  <1> QED  BY <1>2, <1>3, <1>4, <1>5, <1>6, <1>8, <1>9, <1>10, <1>11, <1>12, <1>13, <1>14 DEF Ci!Next

\* The behaviours of Clients are behaviours of Circles.
LEMMA CirclesSteps == Spec => Ci!Spec
  <1>1. Init => Ci!Init
    BY DEF Init
  <1>2. [Next]_vars => [Ci!Next]_(Ci!vars)
    BY DEF Next, vars, DropletsRuns, CirclesRuns, FilesRuns, TreeRuns, SyncthingRuns, GatewayRuns,
       LabelsRuns, VestingRuns, StatsRuns, circlesVars, Ci!vars
  <1> QED  BY <1>1, <1>2, PTL DEF Spec, Ci!Spec

\* What was written is somewhere in every state.
LEMMA MovesKept == Spec => []Ci!PartsKept
  <1>1. CirclesInv => Ci!PartsKept
    BY DEF CirclesInv, Held, Ci!PartsKept
  <1> QED  BY <1>1, CirclesInit, CirclesNext, CirclesSteps, PTL DEF Ci!Spec

\* What is in an item, and what a mover has yet to put in the copy of one, was written to it.
AllWritten ==
    /\ \A i \in items : \A p \in i.parts : <<i.of, p>> \in written
    /\ \A m \in Callers : \A i \in items :
         i.id \in {moves[m].item, moves[m].copy} => \A p \in moves[m].todo : <<i.of, p>> \in written
CirclesRest ==
    /\ circles \subseteq Circle /\ attributes \in [Circle -> SUBSET Fields]
    /\ made <= MaxItems
    /\ late \subseteq written /\ written \subseteq Ci!Ids \X Ci!Parts
    /\ AllWritten

\* The server begins with nothing written.
LEMMA CirclesRestInit == Ci!Init => CirclesRest
  <1> SUFFICES ASSUME Ci!Init PROVE CirclesRest
    OBVIOUS
  <1>1. /\ circles = {} /\ attributes = [k \in Circle |-> {}] /\ items = {} /\ made = 0
        /\ written = {} /\ late = {}
    BY DEF Ci!Init
  <1>2. 0 <= MaxItems
    BY ClientsAssumption DEF ClientsAssumption, Ci!CirclesAssumption
  <1> QED  BY <1>1, <1>2 DEF CirclesRest, AllWritten

\* A mover takes up r, all of it written to the items it is about, which with the rest
\* stay as they are or go.
LEMMA MoverWritten ==
  ASSUME CirclesInv, CirclesRest, NEW m \in Callers, NEW r, moves' = [moves EXCEPT ![m] = r],
         items' \subseteq items, UNCHANGED <<circles, attributes, made, written, late>>,
         \A i \in items : i.id \in {r.item, r.copy} => \A p \in r.todo : <<i.of, p>> \in written
  PROVE  CirclesRest'
  <1>1. moves'[m] = r /\ \A n \in Callers \ {m} : moves'[n] = moves[n]
    BY DEF CirclesInv, CirclesTypes
  <1>2. AllWritten'
    <2>1. \A i \in items' : \A p \in i.parts : <<i.of, p>> \in written'
      BY DEF CirclesRest, AllWritten
    <2>2. ASSUME NEW n \in Callers, NEW i \in items', i.id \in {moves'[n].item, moves'[n].copy}
          PROVE  \A p \in moves'[n].todo : <<i.of, p>> \in written'
      BY <1>1, <2>2 DEF CirclesRest, AllWritten
    <2> QED  BY <2>1, <2>2 DEF AllWritten
  <1> QED  BY <1>2 DEF CirclesRest

\* A mover that ends has nothing to write.
LEMMA MoverEnds ==
  ASSUME CirclesInv, CirclesRest, NEW m \in Callers, Ci!Ends(m), items' \subseteq items,
         UNCHANGED <<circles, attributes, made, written, late>>
  PROVE  CirclesRest'
  <1>1. Ci!Idle.todo = {}
    BY DEF Ci!Idle
  <1> QED  BY <1>1, MoverWritten DEF Ci!Ends

\* An item i that gets the part p has it written, and with it every part there is.
LEMMA PartWritten ==
  ASSUME CirclesInv, CirclesRest, NEW i \in items, NEW p \in Ci!Parts, NEW missed,
         Ci!Gains(i, p, missed), circles' = circles, made' = made,
         attributes' \in [Circle -> SUBSET Fields],
         written \subseteq written', <<i.of, p>> \in written', written' \subseteq Ci!Ids \X Ci!Parts,
         \A m \in Callers : /\ moves'[m].item = moves[m].item /\ moves'[m].copy = moves[m].copy
                            /\ moves'[m].todo \subseteq moves[m].todo
  PROVE  CirclesRest'
  <1> DEFINE new == [i EXCEPT !.parts = @ \cup {p}]
  <1>1. items' = (items \ {i}) \cup {new} /\ late' \subseteq late \cup {<<i.of, p>>}
    BY DEF Ci!Gains
  <1>2. new.id = i.id /\ new.of = i.of /\ new.parts = i.parts \cup {p}
    <2>1. i \in Ci!Item
      BY DEF CirclesInv, CirclesTypes
    <2> QED  BY <2>1 DEF Ci!Item
  <1> HIDE DEF new
  <1>3. \A j \in items' : \E k \in items : j.id = k.id /\ j.of = k.of /\ j.parts \subseteq k.parts \cup {p}
                                          /\ (j.parts \subseteq k.parts \/ k = i)
    BY <1>1, <1>2
  <1>4. \A j \in items' : \A q \in j.parts : <<j.of, q>> \in written'
    BY <1>3 DEF CirclesRest, AllWritten
  <1>5. ASSUME NEW m \in Callers, NEW j \in items', j.id \in {moves'[m].item, moves'[m].copy}
        PROVE  \A q \in moves'[m].todo : <<j.of, q>> \in written'
    BY <1>3, <1>5 DEF CirclesRest, AllWritten
  <1>6. AllWritten'
    BY <1>4, <1>5 DEF AllWritten
  <1> QED  BY <1>1, <1>6 DEF CirclesRest

\* A new item has nothing in it, and no mover was about it before.
LEMMA ItemWritten ==
  ASSUME CirclesInv, CirclesRest, NEW kind, NEW k, NEW of \in Ci!Ids \cup {0}, Ci!New(kind, k, of),
         UNCHANGED <<circles, attributes, written, late>>,
         \A m \in Callers :
            /\ moves'[m].item = moves[m].item /\ moves'[m].todo = moves[m].todo
            /\ \/ moves'[m].copy = moves[m].copy
               \/ /\ moves'[m].copy = made + 1
                  /\ \A p \in moves[m].todo : of # 0 /\ <<of, p>> \in written
  PROVE  CirclesRest'
  <1> DEFINE new == [id |-> made + 1, kind |-> kind, circle |-> k,
                     of |-> IF of = 0 THEN made + 1 ELSE of, parts |-> {}]
  <1>1. made < MaxItems /\ made' = made + 1 /\ items' = items \cup {new} /\ made \in Nat
    BY DEF Ci!New, CirclesInv, CirclesTypes
  <1>2. new.id = made + 1 /\ new.parts = {} /\ (of # 0 => new.of = of)
    OBVIOUS
  <1> HIDE DEF new
  <1>3. MaxItems \in Nat
    BY ClientsAssumption DEF ClientsAssumption, Ci!CirclesAssumption
  <1>4. made' <= MaxItems
    BY <1>1, <1>3
  <1>5. \A j \in items' : \A q \in j.parts : <<j.of, q>> \in written'
    BY <1>1, <1>2 DEF CirclesRest, AllWritten
  <1>6. \A m \in Callers : moves[m].item # made + 1 /\ moves[m].copy # made + 1
    <2> SUFFICES ASSUME NEW m \in Callers PROVE moves[m].item # made + 1 /\ moves[m].copy # made + 1
      OBVIOUS
    <2>1. moves[m].item \in Nat /\ moves[m].copy \in Nat /\ moves[m].item <= made
          /\ (moves[m].copy # 0 => moves[m].copy <= made)
      BY MoverFacts DEF CirclesInv, MoverFits
    <2> QED  BY <2>1, <1>1
  <1>7. \A j \in items : j.id <= made /\ j.id \in Nat
    BY ItemFacts DEF CirclesInv
  <1>8. ASSUME NEW m \in Callers, NEW j \in items', j.id \in {moves'[m].item, moves'[m].copy}
        PROVE  \A q \in moves'[m].todo : <<j.of, q>> \in written'
    <2>1. CASE j = new
      <3>1. moves'[m].copy # moves[m].copy
        BY <1>2, <1>6, <1>8, <2>1
      <3> QED  BY <1>2, <2>1, <3>1
    <2>2. CASE j \in items /\ j.id \in {moves[m].item, moves[m].copy}
      BY <2>2 DEF CirclesRest, AllWritten
    <2>3. CASE j \in items /\ j.id = moves'[m].copy /\ moves'[m].copy # moves[m].copy
      <3>1. j.id = made + 1 /\ j.id <= made /\ j.id \in Nat
        BY <1>7, <2>3
      <3> QED  BY <1>1, <3>1
    <2> QED  BY <1>1, <1>8, <2>1, <2>2, <2>3
  <1>9. AllWritten'
    BY <1>5, <1>8 DEF AllWritten
  <1> QED  BY <1>4, <1>9 DEF CirclesRest

\* Every request to the server keeps what it has of the circles' contents written.
LEMMA CirclesRestNext ==
  ASSUME CirclesInv, CirclesRest, [Ci!Next]_(Ci!vars)
  PROVE  CirclesRest'
  <1>0. /\ CirclesTypes /\ (\A m \in Callers : MoverFits(m))
        /\ moves \in [Callers -> Mover] /\ made \in Nat
        /\ circles \subseteq Circle /\ attributes \in [Circle -> SUBSET Fields]
        /\ written \subseteq Ci!Ids \X Ci!Parts /\ AllWritten
    BY DEF CirclesInv, CirclesTypes, CirclesRest
  <1>1. ASSUME NEW k \in Circle, Ci!CreateCircle(k) PROVE CirclesRest'
    <2>1. /\ circles' \subseteq Circle /\ attributes' \in [Circle -> SUBSET Fields]
          /\ UNCHANGED <<items, made, moves, written, late>>
      BY <1>0, <1>1 DEF Ci!CreateCircle
    <2> QED  BY <2>1 DEF CirclesRest, AllWritten
  <1>2. ASSUME NEW k \in Circle, NEW kind \in {"story", "issue"}, Ci!CreateItem(kind, k)
        PROVE  CirclesRest'
    <2>1. Ci!New(kind, k, 0) /\ UNCHANGED <<circles, attributes, moves, written, late>>
      BY <1>2 DEF Ci!CreateItem
    <2> QED  BY <2>1, ItemWritten
  <1>3. ASSUME NEW i \in items, NEW p \in Ci!Parts, Ci!Write(i, p) PROVE CirclesRest'
    <2> DEFINE missed == Ci!Missed(i, p) \/ \E m \in Callers : moves[m].copy = i.id
    <2>1. /\ written' = written \cup {<<i.of, p>>}
          /\ Ci!Gains(i, p, missed) /\ UNCHANGED <<circles, attributes, made, moves>>
      BY <1>3 DEF Ci!Write
    <2>2. i.of \in Ci!Ids
      BY <1>0, ItemFacts
    <2>3. written' \subseteq Ci!Ids \X Ci!Parts /\ written \subseteq written' /\ <<i.of, p>> \in written'
      BY <1>0, <2>1, <2>2
    <2> HIDE DEF missed
    <2> QED  BY <1>0, <2>1, <2>3, PartWritten
  <1>4. ASSUME NEW m \in Callers, NEW i \in items, Ci!Move(m, i) PROVE CirclesRest'
    <2>1. PICK keep \in BOOLEAN : moves' = [moves EXCEPT ![m] = [Ci!Idle EXCEPT
              !.at = "create", !.item = i.id, !.keep = keep,
              !.todo = IF i.kind = "issue" THEN i.parts ELSE {},
              !.read = IF i.kind = "issue" THEN Fields ELSE {}]]
      BY <1>4 DEF Ci!Move
    <2>2. UNCHANGED <<circles, attributes, items, made, written, late>>
      BY <1>4 DEF Ci!Move, Ci!Kept
    <2> DEFINE r == [Ci!Idle EXCEPT
              !.at = "create", !.item = i.id, !.keep = keep,
              !.todo = IF i.kind = "issue" THEN i.parts ELSE {},
              !.read = IF i.kind = "issue" THEN Fields ELSE {}]
    <2>3. r.item = i.id /\ r.copy = 0 /\ r.todo \subseteq i.parts
      BY DEF Ci!Idle
    <2>4. moves' = [moves EXCEPT ![m] = r]
      BY <2>1
    <2> HIDE DEF r
    <2>5. \A j \in items : j.id \in {r.item, r.copy} => j = i
      BY <1>0, <2>3, ItemFacts DEF CirclesTypes
    <2>6. \A j \in items : j.id \in {r.item, r.copy} => \A p \in r.todo : <<j.of, p>> \in written
      BY <1>0, <2>3, <2>5 DEF AllWritten
    <2> QED  BY <2>2, <2>4, <2>6, MoverWritten
  <1>5. ASSUME NEW m \in Callers, NEW k \in Circle, Ci!Create(m, k) PROVE CirclesRest'
    <2> DEFINE i == Ci!The(moves[m].item)
    <2>1. /\ Ci!There(moves[m].item) /\ Ci!New(i.kind, k, i.of)
          /\ moves' = [moves EXCEPT ![m].at = IF i.kind = "story" THEN "comments" ELSE "last",
                                    ![m].copy = made + 1]
          /\ UNCHANGED <<circles, attributes, written, late>>
      BY <1>5 DEF Ci!Create
    <2>2. i \in items /\ i.id = moves[m].item
      BY <1>0, <2>1, TheItem
    <2> HIDE DEF i
    <2>3. i.of \in Ci!Ids /\ i.of # 0
      BY <1>0, <2>2, ItemFacts DEF Ci!Ids
    <2>4. \A p \in moves[m].todo : <<i.of, p>> \in written
      BY <1>0, <2>2 DEF AllWritten
    <2> DEFINE at == IF i.kind = "story" THEN "comments" ELSE "last"
               r == [moves[m] EXCEPT !.at = at, !.copy = made + 1]
    <2>5. moves' = [moves EXCEPT ![m] = r]
      BY <1>0, <2>1
    <2>6. r.item = moves[m].item /\ r.todo = moves[m].todo /\ r.copy = made + 1
      <3>1. moves[m] \in Mover
        BY <1>0
      <3> HIDE DEF at
      <3> QED  BY <3>1 DEF Mover
    <2> HIDE DEF r
    <2>7. moves'[m] = r /\ \A n \in Callers \ {m} : moves'[n] = moves[n]
      BY <1>0, <2>5
    <2>8. \A n \in Callers :
            /\ moves'[n].item = moves[n].item /\ moves'[n].todo = moves[n].todo
            /\ \/ moves'[n].copy = moves[n].copy
               \/ /\ moves'[n].copy = made + 1
                  /\ \A p \in moves[n].todo : i.of # 0 /\ <<i.of, p>> \in written
      BY <2>3, <2>4, <2>6, <2>7
    <2> QED  BY <2>1, <2>3, <2>8, ItemWritten
  <1>6. ASSUME NEW m \in Callers, NEW at, NEW S, Ci!Reads(m, at, S, moves[m].item)
        PROVE  CirclesRest'
    <2>0. Ci!There(moves[m].item)
      BY <1>6 DEF Ci!Reads
    <2>1. PICK i \in items : i.id = moves[m].item /\ i = Ci!The(moves[m].item)
      BY <1>0, <2>0, TheItem
    <2> DEFINE r == [moves[m] EXCEPT !.at = at, !.todo = i.parts \cap S, !.read = @ \cup S]
    <2>2. /\ UNCHANGED <<circles, attributes, items, made, written, late>>
          /\ moves' = [moves EXCEPT ![m] = r]
      BY <1>0, <1>6, <2>1 DEF Ci!Reads, Ci!Kept
    <2>3. r.item = moves[m].item /\ r.copy = moves[m].copy /\ r.todo = i.parts \cap S
      <3>1. moves[m] \in Mover
        BY <1>0
      <3> QED  BY <3>1 DEF Mover
    <2> HIDE DEF r
    <2>4. ASSUME NEW j \in items, j.id \in {r.item, r.copy} PROVE j.of = i.of
      <3>1. CASE j.id = moves[m].item
        BY <1>0, <2>1, <3>1 DEF CirclesTypes
      <3>2. CASE j.id = moves[m].copy
        BY <1>0, <2>1, <3>2 DEF MoverFits
      <3> QED  BY <2>3, <2>4, <3>1, <3>2
    <2>5. \A j \in items : j.id \in {r.item, r.copy} => \A p \in r.todo : <<j.of, p>> \in written
      BY <1>0, <2>1, <2>3, <2>4 DEF AllWritten
    <2> QED  BY <2>2, <2>5, MoverWritten
  <1>7. ASSUME NEW m \in Callers, Ci!ReadComments(m) \/ Ci!ReadTasks(m) PROVE CirclesRest'
    BY <1>6, <1>7 DEF Ci!ReadComments, Ci!ReadTasks
  <1>8. ASSUME NEW m \in Callers, Ci!AddPart(m) PROVE CirclesRest'
    <2> DEFINE copy == Ci!The(moves[m].copy)
    <2>1. /\ Ci!There(moves[m].copy) /\ UNCHANGED <<circles, made, written>>
          /\ \E p \in moves[m].todo : /\ Ci!Gains(copy, p, Ci!Missed(copy, p))
                                       /\ moves' = [moves EXCEPT ![m].todo = @ \ {p}]
                                       /\ attributes' = [attributes EXCEPT ![copy.circle] =
                                                                      @ \cup ({p} \cap Fields)]
      BY <1>8 DEF Ci!AddPart
    <2>2. copy \in items /\ copy.id = moves[m].copy
      BY <1>0, <2>1, TheItem
    <2> HIDE DEF copy
    <2>3. PICK p \in moves[m].todo :
            /\ Ci!Gains(copy, p, Ci!Missed(copy, p))
            /\ moves' = [moves EXCEPT ![m].todo = @ \ {p}]
            /\ attributes' = [attributes EXCEPT ![copy.circle] = @ \cup ({p} \cap Fields)]
      BY <2>1
    <2>4. attributes' \in [Circle -> SUBSET Fields]
      <3>1. copy.circle \in Circle
        BY <1>0, <2>2, ItemFacts
      <3>2. attributes[copy.circle] \cup ({p} \cap Fields) \in SUBSET Fields
        BY <1>0, <3>1
      <3> QED  BY <1>0, <2>3, <3>2
    <2>5. moves[m] \in Mover
      BY <1>0
    <2>6. p \in Ci!Parts
      BY <2>5 DEF Mover
    <2>7. <<copy.of, p>> \in written
      BY <1>0, <2>2 DEF AllWritten
    <2> DEFINE r == [moves[m] EXCEPT !.todo = @ \ {p}]
    <2>8. r.item = moves[m].item /\ r.copy = moves[m].copy /\ r.todo \subseteq moves[m].todo
      BY <2>5 DEF Mover
    <2>9. moves' = [moves EXCEPT ![m] = r]
      BY <2>3, <1>0
    <2> HIDE DEF r
    <2>10. \A n \in Callers : /\ moves'[n].item = moves[n].item /\ moves'[n].copy = moves[n].copy
                              /\ moves'[n].todo \subseteq moves[n].todo
      BY <1>0, <2>8, <2>9
    <2>11. written \subseteq written' /\ <<copy.of, p>> \in written' /\ written' \subseteq Ci!Ids \X Ci!Parts
      BY <1>0, <2>1, <2>7
    <2> QED  BY <2>1, <2>2, <2>3, <2>4, <2>6, <2>10, <2>11, PartWritten
  <1>9. ASSUME NEW m \in Callers, Ci!DeleteOriginal(m) PROVE CirclesRest'
    <2>1. /\ Ci!Ends(m) /\ items' \subseteq items
          /\ UNCHANGED <<circles, attributes, made, written, late>>
      BY <1>9 DEF Ci!DeleteOriginal
    <2> QED  BY <2>1, MoverEnds
  <1>10. ASSUME NEW m \in Callers, Ci!Fails(m) \/ Ci!Undo(m) PROVE CirclesRest'
    <2>1. /\ Ci!Ends(m) /\ items' \subseteq items
          /\ UNCHANGED <<circles, attributes, made, written, late>>
      BY <1>10 DEF Ci!Fails, Ci!Undo, Ci!Kept
    <2> QED  BY <2>1, MoverEnds
  <1>11. CASE UNCHANGED Ci!vars
    <2>1. UNCHANGED <<circles, attributes, items, made, moves, written, late>>
      BY <1>11 DEF Ci!vars
    <2> QED  BY <2>1 DEF CirclesRest, AllWritten
  <1> QED  BY <1>1, <1>2, <1>3, <1>4, <1>5, <1>7, <1>8, <1>9, <1>10, <1>11 DEF Ci!Next

\* The server of circles stays typed.
LEMMA CirclesTyped == Spec => []Ci!TypeOK
  <1>1. CirclesInv /\ CirclesRest => Ci!TypeOK
    <2> SUFFICES ASSUME CirclesInv, CirclesRest PROVE Ci!TypeOK
      OBVIOUS
    <2>1. MaxItems \in Nat
      BY ClientsAssumption DEF ClientsAssumption, Ci!CirclesAssumption
    <2>2. made \in 0 .. MaxItems
      BY <2>1 DEF CirclesInv, CirclesTypes, CirclesRest
    <2>3. \A m \in Callers : moves[m].todo \subseteq moves[m].read
      BY DEF CirclesInv, MoverFits
    <2> QED  BY <2>2, <2>3 DEF CirclesInv, CirclesTypes, CirclesRest, Ci!TypeOK
  <1> QED  BY <1>1, CirclesInit, CirclesNext, CirclesRestInit, CirclesRestNext, CirclesSteps,
              PTL DEF Ci!Spec

-----------------------------------------------------------------------------
(* CircleFiles.                                                            *)

\* A finite set as a sequence has its elements.
LEMMA Sequenced ==
  ASSUME NEW S, IsFiniteSet(S)
  PROVE  Fi!SetToSeq(S) \in Seq(S)
  <1>1. Cardinality(S) \in Nat /\ ExistsBijection(1 .. Cardinality(S), S)
    BY FS_CountingElements, FS_CardinalityType
  <1>2. \E f \in [1 .. Cardinality(S) -> S] : Fi!IsInjective(f)
    BY <1>1 DEF ExistsBijection, Bijection, Injection, IsInjective, Fi!IsInjective
  <1>3. Fi!SetToSeq(S) \in [1 .. Cardinality(S) -> S]
    BY <1>2 DEF Fi!SetToSeq, Fi!Cardinality, Cardinality
  <1> QED  BY <1>1, <1>3

\* An export has still to write a file for x.
Due(x) == \E K \in Fi!Kinds : x \in listing[K]
Filled(x) == files[x] # Fi!NoFile

\* While nothing was missed, what a file names has a file, or is still due; what is
\* there has a file or is due during an export; and an import is not during an export,
\* and goes by files that are there.
FilesTypes ==
    /\ under \in [Fi!Things -> Fi!Things \cup {Nowhere}]
    /\ files \in [Fi!Things -> (SUBSET Fi!Things) \cup {Fi!NoFile}]
    /\ listing \in [Fi!Kinds -> (SUBSET Fi!Things) \cup {Fi!Unlisted}]
    /\ imported \in Seq(Fi!Things)
FilesMatch ==
    /\ \A x \in Fi!Things : Filled(x) => \A y \in files[x] : Filled(y) \/ Due(y)
    /\ Fi!Exporting => \A x \in Fi!Things \ Archived : Fi!There(x) => Filled(x) \/ Due(x)
    /\ state = "importing" => ~Fi!Exporting /\ \A i \in DOMAIN imported : Filled(imported[i])
FilesInv ==
    /\ FilesTypes
    /\ state = "failed" => changed
    /\ ~changed => FilesMatch

\* The invariant of the files of circles holds at first.
LEMMA FilesInit == Fi!Init => FilesInv
  <1> SUFFICES ASSUME Fi!Init PROVE FilesInv
    OBVIOUS
  <1>1. FilesTypes
    <2>1. /\ under = [x \in Fi!Things |-> Nowhere] /\ files = [x \in Fi!Things |-> Fi!NoFile]
          /\ listing = [K \in Fi!Kinds |-> Fi!Unlisted] /\ imported = <<>>
      BY DEF Fi!Init
    <2>2. imported \in Seq(Fi!Things)
      BY <2>1
    <2>3. under \in [Fi!Things -> Fi!Things \cup {Nowhere}]
      BY <2>1
    <2>4. files \in [Fi!Things -> (SUBSET Fi!Things) \cup {Fi!NoFile}]
      <3>1. Fi!NoFile \in (SUBSET Fi!Things) \cup {Fi!NoFile}
        OBVIOUS
      <3> QED  BY <2>1, <3>1, Zenon
    <2>5. listing \in [Fi!Kinds -> (SUBSET Fi!Things) \cup {Fi!Unlisted}]
      <3>1. Fi!Unlisted \in (SUBSET Fi!Things) \cup {Fi!Unlisted}
        OBVIOUS
      <3> QED  BY <2>1, <3>1, Zenon
    <2> QED  BY <2>2, <2>3, <2>4, <2>5 DEF FilesTypes
  <1>2. FilesMatch
    BY DEF Fi!Init, FilesMatch, Filled, Fi!There, Fi!Exporting
  <1> QED  BY <1>1, <1>2 DEF Fi!Init, FilesInv

\* Every step of the files of circles keeps its invariant.
LEMMA FilesNext ==
  ASSUME FilesInv, [Fi!Next]_(Fi!vars)
  PROVE  FilesInv'
  <1>1. /\ FilesTypes /\ (state = "failed" => changed) /\ (~changed => FilesMatch)
        /\ under \in [Fi!Things -> Fi!Things \cup {Nowhere}]
        /\ files \in [Fi!Things -> (SUBSET Fi!Things) \cup {Fi!NoFile}]
        /\ listing \in [Fi!Kinds -> (SUBSET Fi!Things) \cup {Fi!Unlisted}]
        /\ imported \in Seq(Fi!Things)
    BY DEF FilesInv, FilesTypes
  <1>2. /\ Filed \cap Story = {} /\ Filed \cap Task = {} /\ Story \cap Task = {}
        /\ Nowhere \notin Fi!Things /\ Archived \subseteq Filed
        /\ Fi!NoFile = {Nowhere} /\ Fi!Unlisted = {Nowhere}
    BY ClientsAssumption DEF ClientsAssumption, Fi!FilesAssumption, Fi!Things, Fi!NoFile, Fi!Unlisted
  <1>3. IsFiniteSet(Fi!Things)
    <2>1. IsFiniteSet(Filed) /\ IsFiniteSet(Story) /\ IsFiniteSet(Task)
      BY ClientsAssumption DEF ClientsAssumption, Fi!FilesAssumption, Fi!IsFiniteSet, IsFiniteSet
    <2>2. IsFiniteSet(Filed \cup Story)
      BY <2>1, FS_Union
    <2>3. IsFiniteSet((Filed \cup Story) \cup Task)
      BY <2>1, <2>2, FS_Union
    <2> QED  BY <2>3 DEF Fi!Things
  <1>4. \A K \in Fi!Kinds : K \subseteq Fi!Things
    BY DEF Fi!Kinds, Fi!Things
  <1>5. \A x \in Fi!Things : Fi!Content(x) \subseteq Fi!Things \ Archived
                          /\ \A y \in Fi!Content(x) : Fi!There(y)
    BY <1>2 DEF Fi!Content, Fi!Stories, Fi!Tasks, Fi!There, Fi!Things
  <1>6. \A x \in Fi!Things : Due(x) => Fi!Exporting
    BY <1>2 DEF Due, Fi!Exporting
  <1>7. \A x \in Fi!Things : Filled(x) => files[x] \in SUBSET Fi!Things
    BY <1>1 DEF Filled
  <1>8. \A K \in Fi!Kinds : listing[K] # Fi!Unlisted => listing[K] \in SUBSET Fi!Things
    BY <1>1
  <1>9. ASSUME NEW x \in Fi!Things, NEW y \in Fi!Things \cup {Nowhere}, Fi!Change(x, y)
        PROVE  FilesInv'
    <2>1. /\ under' = [under EXCEPT ![x] = y] /\ changed' = (changed \/ Fi!Exporting)
          /\ UNCHANGED <<files, listing, imported, state>>
      BY <1>9 DEF Fi!Change
    <2>2. FilesTypes'
      BY <1>1, <2>1 DEF FilesTypes
    <2>3. ASSUME ~changed' PROVE FilesMatch'
      BY <1>1, <2>1, <2>3 DEF FilesMatch, Filled, Due, Fi!Exporting
    <2> QED  BY <1>1, <2>1, <2>2, <2>3 DEF FilesInv
  <1>10. CASE Fi!ExportStarts
    <2>1. /\ ~Fi!Exporting /\ UNCHANGED <<under, files, imported, state>>
          /\ listing' = [K \in Fi!Kinds |-> {x \in K \ Archived : Fi!There(x)}]
          /\ changed' = (changed \/ state = "importing")
      BY <1>10 DEF Fi!ExportStarts
    <2>2. FilesTypes'
      BY <1>1, <1>4, <2>1 DEF FilesTypes
    <2>3. \A x \in Fi!Things : Fi!There(x)' /\ x \notin Archived => Due(x)'
      BY <2>1 DEF Due, Fi!There, Fi!Things, Fi!Kinds
    <2>4. ASSUME ~changed' PROVE FilesMatch'
      <3>1. FilesMatch /\ state # "importing"
        BY <1>1, <2>1, <2>4
      <3>2. \A x \in Fi!Things : Filled(x) => \A y \in files[x] : Filled(y)
        BY <1>6, <1>7, <2>1, <3>1 DEF FilesMatch
      <3> QED  BY <2>1, <2>3, <3>1, <3>2 DEF FilesMatch, Filled
    <2> QED  BY <1>1, <2>1, <2>2, <2>4 DEF FilesInv
  <1>11. ASSUME NEW K \in Fi!Kinds, NEW ok \in BOOLEAN, Fi!Export(K, ok) PROVE FilesInv'
    <2>1. PICK x \in listing[K] :
            /\ listing' = [listing EXCEPT ![K] = @ \ {x}]
            /\ files' = IF ok THEN [files EXCEPT ![x] = Fi!Content(x)] ELSE files
      BY <1>11 DEF Fi!Export
    <2>2. /\ listing[K] \notin {Fi!Unlisted, {}} /\ changed' = (changed \/ ~ok)
          /\ UNCHANGED <<under, imported, state>>
      BY <1>11 DEF Fi!Export
    <2>3. listing[K] \subseteq Fi!Things /\ x \in Fi!Things
      BY <1>8, <2>1, <2>2
    <2>4. Fi!Exporting
      BY <2>2 DEF Fi!Exporting
    <2>5. FilesTypes'
      BY <1>1, <1>5, <2>1, <2>2, <2>3 DEF FilesTypes
    <2>6. ASSUME ~changed' PROVE FilesMatch'
      <3>1. ok /\ FilesMatch /\ state # "importing"
        BY <1>1, <2>2, <2>4, <2>6 DEF FilesMatch
      <3>2. /\ files'[x] = Fi!Content(x) /\ Filled(x)'
            /\ \A y \in Fi!Things : y # x => files'[y] = files[y]
        <4>1. files'[x] = Fi!Content(x) /\ \A y \in Fi!Things : y # x => files'[y] = files[y]
          BY <1>1, <2>1, <2>3, <3>1
        <4>2. Fi!Content(x) # {Nowhere}
          BY <1>2, <1>5, <2>3
        <4> QED  BY <1>2, <4>1, <4>2 DEF Filled, Fi!NoFile
      <3>3. \A y \in Fi!Things : Filled(y) \/ Due(y) => Filled(y)' \/ Due(y)'
        <4> SUFFICES ASSUME NEW y \in Fi!Things, y # x, Filled(y) \/ Due(y)
                     PROVE  Filled(y)' \/ Due(y)'
          BY <3>2
        <4>1. Filled(y) => Filled(y)'
          BY <3>2 DEF Filled, Fi!NoFile
        <4>2. Due(y) => Due(y)'
          BY <1>1, <2>1 DEF Due
        <4> QED  BY <4>1, <4>2
      <3>4. ASSUME NEW z \in Fi!Things, Filled(z)', NEW y \in files'[z]
            PROVE  y \in Fi!Things /\ (Filled(y) \/ Due(y))
        <4>1. CASE z = x
          BY <1>5, <2>3, <2>4, <3>1, <3>2, <3>4, <4>1 DEF FilesMatch
        <4>2. CASE z # x
          <5>1. files'[z] = files[z] /\ Filled(z)
            BY <3>2, <3>4, <4>2 DEF Filled, Fi!NoFile
          <5> QED  BY <1>7, <3>1, <3>4, <5>1 DEF FilesMatch
        <4> QED  BY <4>1, <4>2
      <3>5. \A y \in Fi!Things : Fi!There(y)' <=> Fi!There(y)
        BY <2>2 DEF Fi!There
      <3>6. \A y \in Fi!Things \ Archived : Fi!There(y) => Filled(y) \/ Due(y)
        BY <2>4, <3>1 DEF FilesMatch
      <3>7. \A z \in Fi!Things : Filled(z)' => \A y \in files'[z] : Filled(y)' \/ Due(y)'
        BY <3>3, <3>4
      <3>8. \A y \in Fi!Things \ Archived : Fi!There(y)' => Filled(y)' \/ Due(y)'
        BY <3>3, <3>5, <3>6
      <3> QED  BY <2>2, <3>1, <3>7, <3>8 DEF FilesMatch
    <2> QED  BY <1>1, <2>2, <2>5, <2>6 DEF FilesInv
  <1>12. CASE Fi!ExportEnds
    <2>1. /\ \A K \in Fi!Kinds : listing[K] = {}
          /\ listing' = [K \in Fi!Kinds |-> Fi!Unlisted]
          /\ UNCHANGED <<under, files, imported, state, changed>>
      BY <1>12 DEF Fi!ExportEnds
    <2>2. FilesTypes'
      <3>1. Fi!Unlisted \in (SUBSET Fi!Things) \cup {Fi!Unlisted}
        OBVIOUS
      <3>2. listing' \in [Fi!Kinds -> (SUBSET Fi!Things) \cup {Fi!Unlisted}]
        BY <2>1, <3>1, Zenon
      <3> QED  BY <1>1, <2>1, <3>2 DEF FilesTypes
    <2>3. \A y : ~Due(y)
      BY <2>1 DEF Due
    <2>4. Fi!Exporting /\ ~Fi!Exporting'
      BY <1>2, <2>1 DEF Fi!Exporting, Fi!Unlisted, Fi!Kinds
    <2>5. ASSUME ~changed' PROVE FilesMatch'
      BY <1>1, <2>1, <2>3, <2>4, <2>5 DEF FilesMatch, Filled
    <2> QED  BY <1>1, <2>1, <2>2, <2>5 DEF FilesInv
  <1>13. CASE Fi!ImportStarts
    <2> DEFINE named == {x \in Filed : files[x] # Fi!NoFile}
    <2>1. /\ imported' = Fi!SetToSeq(named) /\ state' = "importing"
          /\ changed' = (changed \/ Fi!Exporting) /\ UNCHANGED <<under, files, listing>>
      BY <1>13 DEF Fi!ImportStarts
    <2>2. named \subseteq Fi!Things /\ IsFiniteSet(named)
      <3>1. named \in SUBSET Fi!Things
        BY DEF Fi!Things
      <3> QED  BY <1>3, <3>1, FS_Subset
    <2>3. \A x \in named : Filled(x)
      BY DEF Filled
    <2> HIDE DEF named
    <2>4. imported' \in Seq(named)
      BY <2>1, <2>2, Sequenced
    <2>5. imported' \in Seq(Fi!Things) /\ \A i \in DOMAIN imported' : imported'[i] \in named
      BY <2>2, <2>4
    <2>6. FilesTypes'
      BY <1>1, <2>1, <2>5 DEF FilesTypes
    <2>7. ASSUME ~changed' PROVE FilesMatch'
      <3>1. FilesMatch /\ ~Fi!Exporting /\ ~Fi!Exporting'
        BY <1>1, <2>1, <2>7 DEF Fi!Exporting
      <3>2. \A x : (Filled(x) <=> Filled(x)') /\ (Due(x) <=> Due(x)')
        BY <2>1 DEF Filled, Due
      <3> QED  BY <2>1, <2>3, <2>5, <3>1, <3>2 DEF FilesMatch
    <2> QED  BY <2>1, <2>6, <2>7 DEF FilesInv
  <1>14. ASSUME NEW ok \in BOOLEAN, Fi!Import(ok) PROVE FilesInv'
    <2> DEFINE x == Head(imported)
    <2>1. state = "importing" /\ imported # <<>> /\ UNCHANGED <<under, files, listing>>
      BY <1>14 DEF Fi!Import
    <2>2. x \in Fi!Things /\ Len(imported) > 0 /\ x = imported[1] /\ 1 \in DOMAIN imported
      BY <1>1, <2>1
    <2>3. \A y : (Filled(y) <=> Filled(y)') /\ (Due(y) <=> Due(y)') /\ (Fi!There(y) <=> Fi!There(y)')
      BY <2>1 DEF Filled, Due, Fi!There
    <2>4. Fi!Exporting <=> Fi!Exporting'
      BY <2>1 DEF Fi!Exporting
    <2>5. CASE files[x] # Fi!NoFile /\ ok
      <3> DEFINE front == Fi!SetToSeq(files[x])
      <3>1. imported' = front \o Tail(imported) /\ UNCHANGED <<state, changed>>
        BY <1>14, <2>5 DEF Fi!Import
      <3>2. files[x] \in SUBSET Fi!Things
        BY <1>7, <2>2, <2>5 DEF Filled
      <3>3. front \in Seq(files[x])
        BY <1>3, <3>2, FS_Subset, Sequenced
      <3> HIDE DEF front
      <3>4. front \in Seq(Fi!Things) /\ Tail(imported) \in Seq(Fi!Things)
        BY <1>1, <2>2, <3>2, <3>3
      <3>5. FilesTypes'
        BY <1>1, <2>1, <3>1, <3>4 DEF FilesTypes
      <3>6. ASSUME ~changed' PROVE FilesMatch'
        <4>1. FilesMatch /\ ~Fi!Exporting
          BY <1>1, <2>1, <3>1, <3>6 DEF FilesMatch
        <4>2. \A y \in files[x] : Filled(y)
          BY <1>6, <2>2, <2>5, <3>2, <4>1 DEF FilesMatch, Filled
        <4>3. \A i \in DOMAIN front : Filled(front[i])
          BY <3>3, <4>2
        <4>4. \A i \in DOMAIN Tail(imported) : Filled(Tail(imported)[i])
          <5>1. \A i \in DOMAIN imported : Filled(imported[i])
            BY <2>1, <4>1 DEF FilesMatch
          <5>2. \A i \in DOMAIN Tail(imported) : Tail(imported)[i] = imported[i + 1] /\ i + 1 \in DOMAIN imported
            BY <1>1, <2>2
          <5> QED  BY <5>1, <5>2
        <4>5. \A i \in DOMAIN imported' : Filled(imported'[i])
          <5> DEFINE back == Tail(imported)
          <5>1. front \in Seq(Fi!Things) /\ back \in Seq(Fi!Things) /\ imported' = front \o back
            BY <3>1, <3>4
          <5>2. (\A i \in DOMAIN front : Filled(front[i])) /\ (\A i \in DOMAIN back : Filled(back[i]))
            BY <4>3, <4>4
          <5> HIDE DEF back
          <5>3. ASSUME NEW i \in DOMAIN imported' PROVE Filled(imported'[i])
            <6>1. i \in 1 .. Len(front) + Len(back) /\ Len(front) \in Nat /\ Len(back) \in Nat
              BY <5>1
            <6>2. CASE i <= Len(front)
              <7>1. imported'[i] = front[i] /\ i \in DOMAIN front
                BY <5>1, <6>1, <6>2
              <7> QED  BY <5>2, <7>1
            <6>3. CASE ~(i <= Len(front))
              <7> DEFINE j == i - Len(front)
              <7>1. imported'[i] = back[j] /\ j \in DOMAIN back
                BY <5>1, <6>1, <6>3
              <7> HIDE DEF j
              <7> QED  BY <5>2, <7>1
            <6> QED  BY <6>2, <6>3
          <5> QED  BY <5>3
        <4> QED  BY <2>1, <2>3, <2>4, <4>1, <4>5 DEF FilesMatch
      <3> QED  BY <1>1, <3>1, <3>5, <3>6 DEF FilesInv
    <2>6. CASE ~(files[x] # Fi!NoFile /\ ok)
      <3>1. state' = "failed" /\ imported' = <<>> /\ changed' = (changed \/ ~ok)
        BY <1>14, <2>6 DEF Fi!Import
      <3>2. changed'
        <4>1. ~changed => Filled(x)
          BY <1>1, <2>1, <2>2 DEF FilesMatch
        <4> QED  BY <2>6, <3>1, <4>1 DEF Filled
      <3>3. FilesTypes'
        BY <1>1, <2>1, <3>1 DEF FilesTypes
      <3> QED  BY <3>2, <3>3 DEF FilesInv
    <2> QED  BY <2>5, <2>6
  <1>15. CASE Fi!ImportEnds
    <2>1. state' = "done" /\ UNCHANGED <<under, files, listing, imported, changed>>
      BY <1>15 DEF Fi!ImportEnds
    <2> QED  BY <1>1, <2>1 DEF FilesInv, FilesTypes, FilesMatch, Filled, Due, Fi!Exporting, Fi!There
  <1>16. CASE UNCHANGED Fi!vars
    BY <1>1, <1>16 DEF Fi!vars, FilesInv, FilesTypes, FilesMatch, Filled, Due, Fi!Exporting, Fi!There
  <1> QED  BY <1>9, <1>10, <1>11, <1>12, <1>13, <1>14, <1>15, <1>16 DEF Fi!Next

\* The behaviours of Clients are behaviours of CircleFiles.
LEMMA FilesSteps == Spec => Fi!Spec
  <1>1. Init => Fi!Init
    BY DEF Init
  <1>2. [Next]_vars => [Fi!Next]_(Fi!vars)
    BY DEF Next, vars, DropletsRuns, CirclesRuns, FilesRuns, TreeRuns, SyncthingRuns, GatewayRuns,
       LabelsRuns, VestingRuns, StatsRuns, filesVars, Fi!vars
  <1> QED  BY <1>1, <1>2, PTL DEF Spec, Fi!Spec

\* An export can be imported whole in every state.
LEMMA FilesKept == Spec => []Fi!ExportIsWhole
  <1>1. FilesInv => Fi!ExportIsWhole
    BY DEF FilesInv, Fi!ExportIsWhole
  <1> QED  BY <1>1, FilesInit, FilesNext, FilesSteps, PTL DEF Fi!Spec

\* The files of circles stay typed.
LEMMA FilesTyped == Spec => []Fi!TypeOK
  <1> DEFINE Imports == state \in {"none", "importing", "done", "failed"} /\ changed \in BOOLEAN
  <1>1. Fi!Init => Imports
    BY DEF Fi!Init
  <1>2. Imports /\ [Fi!Next]_(Fi!vars) => Imports'
    <2> SUFFICES ASSUME Imports, [Fi!Next]_(Fi!vars) PROVE Imports'
      OBVIOUS
    <2>1. ASSUME NEW x, NEW y, Fi!Change(x, y) PROVE Imports'
      BY <2>1 DEF Fi!Change
    <2>2. CASE Fi!ExportStarts
      BY <2>2 DEF Fi!ExportStarts
    <2>3. CASE Fi!ExportEnds
      BY <2>3 DEF Fi!ExportEnds
    <2>4. CASE Fi!ImportStarts
      BY <2>4 DEF Fi!ImportStarts
    <2>5. CASE Fi!ImportEnds
      BY <2>5 DEF Fi!ImportEnds
    <2>6. ASSUME NEW ok \in BOOLEAN, Fi!Import(ok) PROVE Imports'
      BY <2>6 DEF Fi!Import
    <2>7. ASSUME NEW ok \in BOOLEAN, NEW K \in Fi!Kinds, Fi!Export(K, ok) PROVE Imports'
      BY <2>7 DEF Fi!Export
    <2>8. CASE UNCHANGED Fi!vars
      BY <2>8 DEF Fi!vars
    <2> QED  BY <2>1, <2>2, <2>3, <2>4, <2>5, <2>6, <2>7, <2>8 DEF Fi!Next
  <1>3. FilesInv /\ Imports => Fi!TypeOK
    BY DEF FilesInv, FilesTypes, Fi!TypeOK
  <1> HIDE DEF Imports
  <1> QED  BY <1>1, <1>2, <1>3, FilesInit, FilesNext, FilesSteps, PTL DEF Fi!Spec

-----------------------------------------------------------------------------
(* Labels.                                                                 *)

Setting == [at : La!Loops \cup {"idle", "done"}, begun : BOOLEAN, left : La!Lists,
            want : Wants \cup {{}}]
LabelsTypes ==
    /\ labels \in La!Lists /\ La!Unique(labels)
    /\ cache \in [Callers -> La!Lists \cup {Nothing}]
    /\ labelling \in [Callers -> Setting]

\* What a call at r, with the list k, has made of the labels l that nobody else has changed.
\* A protected label is left by no loop but the first, which renames or deletes it.
Reached(r, k, l) ==
    /\ k # Nothing => k = l
    /\ r.at = "walk" /\ r.begun =>
         \A n \in La!There(l) \cap Protected : LabelLower[n] \in r.want \/ n \in La!There(r.left)
    /\ r.at \in {"create", "delete", "colors", "done"} =>
         \A n \in La!There(l) \cap Protected : LabelLower[n] \in r.want
    /\ r.at = "create" /\ r.begun => r.want \subseteq La!There(l) \cup La!There(r.left)
    /\ r.at \in {"delete", "colors", "done"} => r.want \subseteq La!There(l)
    /\ r.at = "delete" /\ r.begun => La!There(l) \subseteq r.want \cup La!There(r.left)
    /\ r.at \in {"colors", "done"} => La!There(l) \subseteq r.want
    /\ r.at = "colors" /\ r.begun => \A n \in La!There(l) : l[n] = GetColor[n] \/ r.left[n] = l[n]
    /\ r.at = "done" => \A n \in La!There(l) : l[n] = GetColor[n]
\* What a loop has left, which before it begins is nothing.
Listed(r) ==
    /\ ~r.begun => La!There(r.left) = {}
    /\ r.at = "create" => La!There(r.left) \subseteq r.want
LeftAlone == \A n \in gone : \E want \in Wants : n \notin want
LabelsInv ==
    /\ LabelsTypes
    /\ \A c \in Callers : labelling[c].at # "idle" => labelling[c].want \in Wants
    /\ \A c \in Callers : Listed(labelling[c])
    /\ \A c \in Callers \ spoiled : Reached(labelling[c], cache[c], labels)
    /\ LeftAlone

\* The constants of the labels.
LEMMA LabelsConstants ==
    /\ \A n \in LabelNames : LabelLower[n] \in LabelNames /\ LabelLower[LabelLower[n]] = LabelLower[n]
    /\ \A want \in Wants : \A n \in want : n \in LabelNames /\ LabelLower[n] = n
    /\ \A n \in DOMAIN Replace : Replace[n] \in LabelNames \ Protected
    /\ \A n \in LabelNames \cap Protected : LabelLower[n] \notin DOMAIN Replace
    /\ UnknownType \in LabelNames \ Protected
    /\ \A n \in LabelNames : GetColor[n] \in La!Colors /\ GetColor[n] # Absent
    /\ Absent \notin La!Colors /\ Nothing \notin La!Lists /\ La!None \in La!Lists
  BY ClientsAssumption DEF ClientsAssumption, La!LabelsAssumption, La!Colors, La!Lists, La!None

\* No call is one that is idle and has nothing left.
LEMMA IdleReaches == La!Idle \in Setting /\ La!Idle.at = "idle" /\ Listed(La!Idle)
  <1>1. "idle" \in La!Loops \cup {"idle", "done"} /\ {} \in Wants \cup {{}} /\ FALSE \in BOOLEAN
    OBVIOUS
  <1>2. La!Idle \in Setting /\ La!Idle.at = "idle" /\ La!Idle.left = La!None
    BY <1>1, LabelsConstants DEF La!Idle, Setting
  <1>3. La!There(La!None) = {}
    BY DEF La!There, La!None
  <1> QED  BY <1>2, <1>3 DEF Listed

\* The invariant of the labels holds at first.
LEMMA LabelsInit == La!Init => LabelsInv
  <1> SUFFICES ASSUME La!Init PROVE LabelsInv
    OBVIOUS
  <1>1. /\ labels \in La!Lists /\ La!Unique(labels) /\ gone = {}
        /\ cache = [c \in Callers |-> Nothing] /\ labelling = [c \in Callers |-> La!Idle]
    BY DEF La!Init
  <1>2. LabelsTypes
    BY <1>1, IdleReaches DEF LabelsTypes
  <1>3. \A c \in Callers : labelling[c].at = "idle" /\ cache[c] = Nothing /\ Listed(labelling[c])
    BY <1>1, IdleReaches
  <1> QED  BY <1>1, <1>2, <1>3 DEF LabelsInv, Reached, LeftAlone

\* The call of c goes on to r, with the list k: others go by what nobody has changed.
LEMMA Stepping ==
  ASSUME LabelsInv, NEW c \in Callers, NEW r \in Setting, NEW k \in La!Lists \cup {Nothing},
         labelling' = [labelling EXCEPT ![c] = r], cache' = [cache EXCEPT ![c] = k],
         labels' \in La!Lists, La!Unique(labels)',
         (labels' = labels /\ spoiled \ {c} \subseteq spoiled') \/ La!Spoils(c),
         r.at # "idle" => r.want \in Wants, Listed(r),
         c \notin spoiled' => Reached(r, k, labels'),
         LeftAlone'
  PROVE  LabelsInv'
  <1>0. LabelsTypes /\ labelling \in [Callers -> Setting] /\ cache \in [Callers -> La!Lists \cup {Nothing}]
    BY DEF LabelsInv, LabelsTypes
  <1>1. LabelsTypes'
    BY <1>0 DEF LabelsTypes
  <1>2. /\ labelling'[c] = r /\ cache'[c] = k
        /\ \A d \in Callers \ {c} : labelling'[d] = labelling[d] /\ cache'[d] = cache[d]
    BY <1>0
  <1>3. ASSUME NEW d \in Callers \ {c}, d \notin spoiled'
        PROVE  Reached(labelling[d], cache[d], labels')
    <2>1. CASE labels' = labels /\ spoiled \ {c} \subseteq spoiled'
      BY <1>3, <2>1 DEF LabelsInv
    <2>2. CASE La!Spoils(c)
      <3>1. cache[d] = Nothing /\ labelling[d].at = "idle"
        BY <1>3, <2>2 DEF La!Spoils, La!At
      <3> QED  BY <3>1 DEF Reached
    <2> QED  BY <2>1, <2>2
  <1>4. \A d \in Callers : (labelling'[d].at # "idle" => labelling'[d].want \in Wants)
                          /\ Listed(labelling'[d])
    BY <1>2 DEF LabelsInv
  <1>6. \A d \in Callers : Listed(labelling[d])'
    BY <1>4 DEF Listed, La!There
  <1>5. \A d \in Callers \ spoiled' : Reached(labelling[d], cache[d], labels)'
    BY <1>2, <1>3
  <1> QED  BY <1>1, <1>4, <1>5, <1>6 DEF LabelsInv

\* A call that ends keeps the list it has.
LEMMA Ending ==
  ASSUME LabelsInv, NEW c \in Callers, labelling' = [labelling EXCEPT ![c] = La!Idle],
         UNCHANGED <<labels, cache, spoiled, gone>>
  PROVE  LabelsInv'
  <1>1. LabelsTypes /\ cache[c] \in La!Lists \cup {Nothing} /\ cache' = [cache EXCEPT ![c] = cache[c]]
    BY DEF LabelsInv, LabelsTypes
  <1>2. labels' = labels /\ spoiled' = spoiled /\ LeftAlone'
    BY DEF LabelsInv, LeftAlone
  <1>3. c \notin spoiled' => Reached(La!Idle, cache[c], labels')
    BY <1>2, IdleReaches DEF LabelsInv, Reached
  <1>4. labels' \in La!Lists /\ La!Unique(labels)' /\ spoiled \ {c} \subseteq spoiled'
    BY <1>1, <1>2 DEF LabelsTypes, La!Unique, La!There
  <1> QED  BY <1>1, <1>2, <1>3, <1>4, IdleReaches, Stepping

\* A loop is done with a label.
LEMMA Leaving ==
  ASSUME LabelsTypes, NEW c \in Callers, NEW n \in LabelNames, La!Done(c, n)
  PROVE  \E r \in Setting :
           /\ labelling' = [labelling EXCEPT ![c] = r]
           /\ r.at = labelling[c].at /\ r.begun = labelling[c].begun /\ r.want = labelling[c].want
           /\ r.left[n] = Absent /\ \A m \in LabelNames \ {n} : r.left[m] = labelling[c].left[m]
           /\ \A m \in La!There(labelling[c].left) \ {n} : m \in La!There(r.left)
           /\ (Listed(labelling[c]) => Listed(r))
  <1>1. labelling[c] \in Setting /\ labelling[c].left \in La!Lists
    BY DEF LabelsTypes, Setting
  <1> DEFINE left == [labelling[c].left EXCEPT ![n] = Absent]
             r == [labelling[c] EXCEPT !.left = left]
  <1>2. left \in La!Lists /\ left[n] = Absent /\ \A m \in LabelNames \ {n} : left[m] = labelling[c].left[m]
    BY <1>1 DEF La!Lists
  <1>3. labelling' = [labelling EXCEPT ![c] = r]
    BY DEF La!Done, LabelsTypes
  <1> HIDE DEF left
  <1>4. r \in Setting /\ r.at = labelling[c].at /\ r.begun = labelling[c].begun
        /\ r.want = labelling[c].want /\ r.left = left
    BY <1>1, <1>2 DEF Setting
  <1> HIDE DEF r
  <1>5. La!There(r.left) = La!There(labelling[c].left) \ {n}
    BY <1>2, <1>4 DEF La!There
  <1> QED  BY <1>2, <1>3, <1>4, <1>5 DEF Listed

\* What an edit, a deletion and a creation make of the labels.
LEMMA Editing ==
  ASSUME LabelsTypes, NEW c, NEW n \in LabelNames, NEW m \in LabelNames, NEW color \in La!Colors,
         La!CanEdit(n, m), La!Edit(c, n, m, color)
  PROVE  /\ labels' \in La!Lists /\ La!Unique(labels)'
         /\ La!There(labels') = (La!There(labels) \ {n}) \cup {m}
         /\ labels'[m] = color /\ \A k \in LabelNames \ {n, m} : labels'[k] = labels[k]
         /\ La!Spoils(c) /\ gone' = gone \cup ({n} \ {m})
  <1>1. labels \in La!Lists /\ labels' = [labels EXCEPT ![n] = Absent, ![m] = color] /\ color # Absent
    BY LabelsConstants DEF LabelsTypes, La!Edit
  <1>2. labels' \in La!Lists /\ labels'[m] = color /\ (n # m => labels'[n] = Absent)
        /\ \A k \in LabelNames \ {n, m} : labels'[k] = labels[k]
    BY <1>1 DEF La!Lists
  <1>3. La!There(labels') = (La!There(labels) \ {n}) \cup {m}
    BY <1>1, <1>2 DEF La!There
  <1>4. La!Unique(labels)'
    BY <1>3 DEF LabelsTypes, La!Unique, La!CanEdit
  <1> QED  BY <1>2, <1>3, <1>4 DEF La!Edit

\* A label that is deleted is there no more, and the others are.
LEMMA Deleting ==
  ASSUME LabelsTypes, NEW c, NEW n \in LabelNames, La!Delete(c, n)
  PROVE  /\ labels' \in La!Lists /\ La!Unique(labels)'
         /\ La!There(labels') = La!There(labels) \ {n}
         /\ \A k \in LabelNames \ {n} : labels'[k] = labels[k]
         /\ La!Spoils(c) /\ gone' = gone \cup {n}
  <1>1. labels \in La!Lists /\ labels' = [labels EXCEPT ![n] = Absent]
    BY DEF LabelsTypes, La!Delete
  <1>2. labels' \in La!Lists /\ labels'[n] = Absent /\ \A k \in LabelNames \ {n} : labels'[k] = labels[k]
    BY <1>1 DEF La!Lists
  <1>3. La!There(labels') = La!There(labels) \ {n}
    BY <1>2 DEF La!There
  <1>4. La!Unique(labels)'
    BY <1>3 DEF LabelsTypes, La!Unique
  <1> QED  BY <1>2, <1>3, <1>4 DEF La!Delete

\* A label that is made is there, and so are the others.
LEMMA Creating ==
  ASSUME LabelsTypes, NEW n \in LabelNames, La!CanCreate(n),
         labels' = [labels EXCEPT ![n] = GetColor[n]]
  PROVE  /\ labels' \in La!Lists /\ La!Unique(labels)'
         /\ La!There(labels') = La!There(labels) \cup {n}
         /\ \A k \in LabelNames \ {n} : labels'[k] = labels[k]
  <1>1. labels \in La!Lists /\ GetColor[n] \in La!Colors /\ GetColor[n] # Absent
    BY LabelsConstants DEF LabelsTypes
  <1>2. labels' \in La!Lists /\ labels'[n] = GetColor[n] /\ \A k \in LabelNames \ {n} : labels'[k] = labels[k]
    BY <1>1 DEF La!Lists
  <1>3. La!There(labels') = La!There(labels) \cup {n}
    BY <1>1, <1>2 DEF La!There
  <1>4. La!Unique(labels)'
    BY <1>3 DEF LabelsTypes, La!Unique, La!CanCreate
  <1> QED  BY <1>2, <1>3, <1>4

\* A loop that leaves a label as it is.
LEMMA Skipping ==
  ASSUME LabelsInv, NEW c \in Callers, NEW n \in LabelNames, La!Skip(c, n), labelling[c].at # "idle",
         labelling[c].at = "walk" /\ n \in Protected => LabelLower[n] \in labelling[c].want,
         labelling[c].at = "create" /\ c \notin spoiled => n \in La!There(labels),
         labelling[c].at = "delete" => n \in labelling[c].want,
         labelling[c].at = "colors" /\ c \notin spoiled => labelling[c].left[n] = GetColor[n]
  PROVE  LabelsInv'
  <1>0. LabelsTypes /\ labels \in La!Lists /\ La!Unique(labels) /\ cache[c] \in La!Lists \cup {Nothing}
        /\ cache' = [cache EXCEPT ![c] = cache[c]] /\ labels' = labels /\ spoiled' = spoiled /\ gone' = gone
    BY DEF LabelsInv, LabelsTypes, La!Skip, La!Untouched
  <1>1. PICK r \in Setting :
           /\ labelling' = [labelling EXCEPT ![c] = r]
           /\ r.at = labelling[c].at /\ r.begun = labelling[c].begun /\ r.want = labelling[c].want
           /\ r.left[n] = Absent /\ \A m \in LabelNames \ {n} : r.left[m] = labelling[c].left[m]
           /\ \A m \in La!There(labelling[c].left) \ {n} : m \in La!There(r.left)
           /\ (Listed(labelling[c]) => Listed(r))
    BY <1>0, Leaving DEF La!Skip
  <1>2. ASSUME c \notin spoiled PROVE Reached(r, cache[c], labels)
    <2>1. Reached(labelling[c], cache[c], labels)
      BY <1>2 DEF LabelsInv
    <2>2. r.at = "colors" /\ r.begun => \A m \in La!There(labels) : labels[m] = GetColor[m] \/ r.left[m] = labels[m]
      BY <1>1, <1>2, <2>1 DEF Reached, La!There
    <2> QED  BY <1>1, <1>2, <2>1, <2>2 DEF Reached
  <1>3. LeftAlone' /\ (r.at # "idle" => r.want \in Wants) /\ La!Unique(labels)' /\ Listed(r)
    BY <1>0, <1>1 DEF LabelsInv, LeftAlone, La!Unique, La!There
  <1> QED  BY <1>0, <1>1, <1>2, <1>3, Stepping

\* Every step of the labels keeps its invariant.
LEMMA LabelsNext ==
  ASSUME LabelsInv, [La!Next]_(La!vars)
  PROVE  LabelsInv'
  <1>1. /\ LabelsTypes /\ labels \in La!Lists /\ La!Unique(labels) /\ LeftAlone
        /\ labelling \in [Callers -> Setting] /\ cache \in [Callers -> La!Lists \cup {Nothing}]
    BY DEF LabelsInv, LabelsTypes
  <1>2. \A c \in Callers : labelling[c] \in Setting /\ labelling[c].left \in La!Lists
    BY <1>1 DEF Setting
  <1>3. \A c \in Callers : Listed(labelling[c])
    BY DEF LabelsInv
  <1>4. Nothing \in La!Lists \cup {Nothing}
    OBVIOUS
  \* Where neither the labels nor what is gone change.
  <1>5. ASSUME labels' = labels, gone' = gone
        PROVE  labels' \in La!Lists /\ La!Unique(labels)' /\ LeftAlone'
    BY <1>1, <1>5 DEF LeftAlone, La!Unique, La!There
  <1>6. ASSUME NEW c \in Callers, La!Renew(c) PROVE LabelsInv'
    <2>1. /\ labelling[c].at = "idle" /\ cache' = [cache EXCEPT ![c] = Nothing]
          /\ labelling' = [labelling EXCEPT ![c] = labelling[c]]
          /\ labels' = labels /\ gone' = gone /\ spoiled' = spoiled \ {c}
      BY <1>1, <1>6 DEF La!Renew, La!At, La!Forget
    <2>2. Reached(labelling[c], Nothing, labels')
      BY <2>1 DEF Reached
    <2> QED  BY <1>2, <1>3, <1>4, <1>5, <2>1, <2>2, Stepping
  <1>7. ASSUME NEW c \in Callers, NEW want \in Wants, La!LabelsSet(c, want) PROVE LabelsInv'
    <2> DEFINE r == [La!Idle EXCEPT !.at = "walk", !.want = want]
    <2>1. /\ labelling[c].at = "idle" /\ labelling' = [labelling EXCEPT ![c] = r]
          /\ cache' = [cache EXCEPT ![c] = cache[c]] /\ labels' = labels /\ gone' = gone
          /\ spoiled' = IF cache[c] = Nothing THEN spoiled \ {c} ELSE spoiled
      BY <1>1, <1>7 DEF La!LabelsSet, La!At
    <2>2. r \in Setting /\ r.at = "walk" /\ r.want = want /\ r.begun = FALSE /\ Listed(r)
      <3>1. "walk" \in La!Loops \cup {"idle", "done"} /\ want \in Wants \cup {{}}
        BY DEF La!Loops
      <3>2. La!Idle.begun = FALSE
        BY DEF La!Idle
      <3>3. r \in Setting /\ r.at = "walk" /\ r.want = want /\ r.begun = FALSE /\ r.left = La!Idle.left
        BY <3>1, <3>2, IdleReaches DEF Setting
      <3> HIDE DEF r
      <3> QED  BY <3>2, <3>3, IdleReaches DEF Listed
    <2> HIDE DEF r
    <2>3. c \notin spoiled' => Reached(r, cache[c], labels')
      BY <2>1, <2>2 DEF Reached, LabelsInv
    <2>4. spoiled \ {c} \subseteq spoiled' /\ cache[c] \in La!Lists \cup {Nothing}
      BY <1>1, <2>1
    <2> QED  BY <1>5, <2>1, <2>2, <2>3, <2>4, Stepping
  <1>8. ASSUME NEW c \in Callers, La!Load(c) PROVE LabelsInv'
    <2>1. /\ cache' = [cache EXCEPT ![c] = labels] /\ labelling' = [labelling EXCEPT ![c] = labelling[c]]
          /\ labels' = labels /\ gone' = gone /\ spoiled' = spoiled
      BY <1>1, <1>8 DEF La!Load
    <2>2. c \notin spoiled => Reached(labelling[c], labels, labels')
      BY <2>1 DEF LabelsInv, Reached
    <2>3. labelling[c].at # "idle" => labelling[c].want \in Wants
      BY DEF LabelsInv
    <2> QED  BY <1>1, <1>2, <1>3, <1>5, <2>1, <2>2, <2>3, Stepping
  <1>9. ASSUME NEW c \in Callers, La!Raises(c) PROVE LabelsInv'
    BY <1>9, Ending DEF La!Raises, La!Untouched
  <1>10. ASSUME NEW c \in Callers, La!LoadFails(c) PROVE LabelsInv'
    BY <1>9, <1>10 DEF La!LoadFails
  <1>11. ASSUME NEW c \in Callers, La!Return(c) PROVE LabelsInv'
    BY <1>11, Ending DEF La!Return, La!Untouched
  <1>12. ASSUME NEW c \in Callers, La!BeginLoop(c) PROVE LabelsInv'
    <2> DEFINE left == IF labelling[c].at = "create"
                       THEN [n \in LabelNames |-> IF n \in labelling[c].want THEN GetColor[n] ELSE Absent]
                       ELSE cache[c]
               r == [labelling[c] EXCEPT !.begun = TRUE, !.left = left]
    <2>1. /\ labelling[c].at \in La!Loops /\ (labelling[c].at = "create" \/ cache[c] # Nothing)
          /\ labelling' = [labelling EXCEPT ![c] = r] /\ cache' = [cache EXCEPT ![c] = cache[c]]
          /\ labels' = labels /\ gone' = gone /\ spoiled' = spoiled
      BY <1>1, <1>12 DEF La!BeginLoop, La!Untouched, La!At, La!Wanted
    <2>2. labelling[c].want \in Wants
      BY <2>1 DEF LabelsInv, La!Loops
    <2>3. left \in La!Lists
      BY <1>1, <2>1, LabelsConstants DEF La!Lists
    <2>4. /\ labelling[c].at = "create" => La!There(left) = labelling[c].want
          /\ labelling[c].at # "create" => left = cache[c]
      BY <2>2, LabelsConstants DEF La!There
    <2> HIDE DEF left
    <2>5. r \in Setting /\ r.at = labelling[c].at /\ r.want = labelling[c].want /\ r.left = left
          /\ r.begun = TRUE
      BY <1>2, <2>3 DEF Setting
    <2> HIDE DEF r
    <2>6. Listed(r)
      BY <2>4, <2>5 DEF Listed
    <2>7. c \notin spoiled => Reached(r, cache[c], labels')
      <3> SUFFICES ASSUME c \notin spoiled PROVE Reached(r, cache[c], labels)
        BY <2>1
      <3>1. Reached(labelling[c], cache[c], labels)
        BY DEF LabelsInv
      <3>2. labelling[c].at # "create" => left = labels
        BY <2>1, <2>4, <3>1 DEF Reached
      <3>3. r.at # "done"
        BY <2>1, <2>5 DEF La!Loops
      <3> QED  BY <2>4, <2>5, <3>1, <3>2, <3>3 DEF Reached
    <2> QED  BY <1>1, <1>5, <2>1, <2>2, <2>5, <2>7, <2>6, Stepping
  <1>13. ASSUME NEW c \in Callers, La!EndLoop(c) PROVE LabelsInv'
    <2> DEFINE at == La!After[labelling[c].at]
               r == [labelling[c] EXCEPT !.at = at, !.begun = FALSE]
    <2>1. /\ labelling[c].at \in La!Loops /\ labelling[c].begun /\ labelling[c].left = La!None
          /\ labelling' = [labelling EXCEPT ![c] = r] /\ cache' = [cache EXCEPT ![c] = cache[c]]
          /\ labels' = labels /\ gone' = gone /\ spoiled' = spoiled
      BY <1>1, <1>13 DEF La!EndLoop, La!Untouched
    <2>2. /\ labelling[c].at = "walk" => at = "create"
          /\ labelling[c].at = "create" => at = "delete"
          /\ labelling[c].at = "delete" => at = "colors"
          /\ labelling[c].at = "colors" => at = "done"
          /\ labelling[c].at \in {"walk", "create", "delete", "colors"}
      BY <2>1 DEF La!After, La!Loops
    <2>3. at \in La!Loops \cup {"idle", "done"}
      BY <2>2 DEF La!Loops
    <2> HIDE DEF at
    <2>4. r \in Setting /\ r.at = at /\ r.want = labelling[c].want /\ r.begun = FALSE
          /\ r.left = labelling[c].left
      BY <1>2, <2>3 DEF Setting
    <2> HIDE DEF r
    <2>5. \A n : n \notin La!There(La!None) /\ (n \in LabelNames => La!None[n] = Absent)
      BY DEF La!There, La!None
    <2>6. c \notin spoiled => Reached(r, cache[c], labels')
      <3> SUFFICES ASSUME c \notin spoiled PROVE Reached(r, cache[c], labels)
        BY <2>1
      <3>1. Reached(labelling[c], cache[c], labels)
        BY DEF LabelsInv
      <3>2. \A n \in La!There(labels) : n \in LabelNames /\ labels[n] # Absent
        BY DEF La!There
      <3> QED  BY <2>1, <2>2, <2>4, <2>5, <3>1, <3>2 DEF Reached
    <2>7. r.want \in Wants /\ Listed(r)
      BY <2>1, <2>2, <2>4, <2>5 DEF LabelsInv, Listed
    <2> QED  BY <1>1, <1>5, <2>1, <2>4, <2>6, <2>7, Stepping
  <1>14. ASSUME NEW c \in Callers, NEW n \in LabelNames, La!Walk(c, n) PROVE LabelsInv'
    BY <1>14, Skipping DEF La!Walk, La!At, La!Wanted
  \* The first loop renames or deletes a label that is not asked for.
  <1>15. ASSUME NEW c \in Callers, NEW n \in LabelNames, labelling[c].at = "walk",
                LabelLower[n] \notin labelling[c].want, La!Done(c, n), La!Forget(c), La!Spoils(c),
                labels' \in La!Lists, La!Unique(labels)', gone' \subseteq gone \cup {n},
                La!There(labels') \cap Protected \subseteq La!There(labels) \ {n}
         PROVE  LabelsInv'
    <2>1. PICK r \in Setting :
             /\ labelling' = [labelling EXCEPT ![c] = r]
             /\ r.at = labelling[c].at /\ r.begun = labelling[c].begun /\ r.want = labelling[c].want
             /\ \A m \in La!There(labelling[c].left) \ {n} : m \in La!There(r.left)
             /\ (Listed(labelling[c]) => Listed(r))
      BY <1>1, <1>15, Leaving
    <2>2. c \notin spoiled' => c \notin spoiled
      BY <1>15 DEF La!Spoils
    <2>3. ASSUME c \notin spoiled PROVE Reached(r, Nothing, labels')
      <3>1. Reached(labelling[c], cache[c], labels)
        BY <2>3 DEF LabelsInv
      <3> QED  BY <1>15, <2>1, <3>1 DEF Reached
    <2>4. r.want \in Wants /\ n \notin r.want /\ Listed(r)
      BY <1>15, <2>1, LabelsConstants DEF LabelsInv
    <2>5. LeftAlone'
      BY <1>1, <1>15, <2>4 DEF LeftAlone
    <2>6. cache' = [cache EXCEPT ![c] = Nothing]
      BY <1>15 DEF La!Forget
    <2> QED  BY <1>4, <1>15, <2>1, <2>2, <2>3, <2>4, <2>5, <2>6, Stepping
  <1>16. ASSUME NEW c \in Callers, NEW n \in LabelNames, NEW ok \in BOOLEAN, La!Rename(c, n, ok)
         PROVE  LabelsInv'
    <2> DEFINE new == La!Replacement(n)
    <2>1. /\ labelling[c].at = "walk" /\ LabelLower[n] \notin labelling[c].want
          /\ LabelLower[n] \in DOMAIN Replace
          /\ \/ La!Skip(c, n)
             \/ La!CanEdit(n, new) /\ La!Edit(c, n, new, GetColor[LabelLower[n]]) /\ La!Done(c, n) /\ La!Forget(c)
             \/ La!Raises(c)
      BY <1>16 DEF La!Rename, La!At, La!Wanted, La!HasReplacement
    <2>2. new \in LabelNames \ Protected /\ n \notin Protected /\ GetColor[LabelLower[n]] \in La!Colors
      BY <2>1, LabelsConstants DEF La!Replacement
    <2> HIDE DEF new
    <2>3. CASE La!Skip(c, n)
      BY <2>1, <2>2, <2>3, Skipping
    <2>4. CASE La!CanEdit(n, new) /\ La!Edit(c, n, new, GetColor[LabelLower[n]]) /\ La!Done(c, n) /\ La!Forget(c)
      <3>1. /\ labels' \in La!Lists /\ La!Unique(labels)' /\ La!Spoils(c)
            /\ La!There(labels') = (La!There(labels) \ {n}) \cup {new} /\ gone' = gone \cup ({n} \ {new})
        BY <1>1, <2>2, <2>4, Editing
      <3>2. La!There(labels') \cap Protected \subseteq La!There(labels) \ {n} /\ gone' \subseteq gone \cup {n}
        BY <2>2, <3>1
      <3> QED  BY <1>15, <2>1, <2>4, <3>1, <3>2
    <2> QED  BY <1>9, <2>1, <2>3, <2>4
  <1>17. ASSUME NEW c \in Callers, NEW n \in LabelNames, NEW ok \in BOOLEAN, NEW deleted \in BOOLEAN,
                La!Disown(c, n, ok, deleted)
         PROVE  LabelsInv'
    <2>1. /\ labelling[c].at = "walk" /\ LabelLower[n] \notin labelling[c].want
          /\ \/ La!CanEdit(n, UnknownType) /\ La!Edit(c, n, UnknownType, GetColor[UnknownType])
                /\ La!Done(c, n) /\ La!Forget(c)
             \/ La!Delete(c, n) /\ La!Done(c, n) /\ La!Forget(c)
             \/ La!Raises(c)
      BY <1>17 DEF La!Disown, La!At, La!Wanted
    <2>2. UnknownType \in LabelNames /\ UnknownType \notin Protected /\ GetColor[UnknownType] \in La!Colors
      BY LabelsConstants
    <2>3. CASE La!CanEdit(n, UnknownType) /\ La!Edit(c, n, UnknownType, GetColor[UnknownType])
               /\ La!Done(c, n) /\ La!Forget(c)
      <3>1. /\ labels' \in La!Lists /\ La!Unique(labels)' /\ La!Spoils(c)
            /\ La!There(labels') = (La!There(labels) \ {n}) \cup {UnknownType}
            /\ gone' = gone \cup ({n} \ {UnknownType})
        <4> DEFINE new == UnknownType
        <4>1. new \in LabelNames /\ GetColor[new] \in La!Colors /\ La!CanEdit(n, new) /\ La!Edit(c, n, new, GetColor[new])
          BY <2>2, <2>3
        <4> HIDE DEF new
        <4>2. /\ labels' \in La!Lists /\ La!Unique(labels)' /\ La!Spoils(c)
              /\ La!There(labels') = (La!There(labels) \ {n}) \cup {new} /\ gone' = gone \cup ({n} \ {new})
          BY <1>1, <4>1, Editing
        <4> QED  BY <4>2 DEF new
      <3>2. La!There(labels') \cap Protected \subseteq La!There(labels) \ {n} /\ gone' \subseteq gone \cup {n}
        BY <2>2, <3>1
      <3> QED  BY <1>15, <2>1, <2>3, <3>1, <3>2
    <2>4. CASE La!Delete(c, n) /\ La!Done(c, n) /\ La!Forget(c)
      <3>1. /\ labels' \in La!Lists /\ La!Unique(labels)' /\ La!Spoils(c)
            /\ La!There(labels') = La!There(labels) \ {n} /\ gone' = gone \cup {n}
        BY <1>1, <2>4, Deleting
      <3> QED  BY <1>15, <2>1, <2>4, <3>1
    <2> QED  BY <1>9, <2>1, <2>3, <2>4
  <1>18. ASSUME NEW c \in Callers, NEW n \in La!There(labelling[c].left), NEW ok \in BOOLEAN,
                La!CreateLabel(c, n, ok)
         PROVE  LabelsInv'
    <2>1. n \in LabelNames
      BY DEF La!There
    <2>2. /\ labelling[c].at = "create" /\ cache[c] # Nothing
          /\ \/ n \in La!There(cache[c]) /\ La!Skip(c, n)
             \/ /\ La!CanCreate(n) /\ labels' = [labels EXCEPT ![n] = GetColor[n]]
                /\ La!Spoils(c) /\ La!Done(c, n) /\ La!Forget(c) /\ gone' = gone
             \/ La!Raises(c)
      BY <1>18 DEF La!CreateLabel, La!At
    <2>3. CASE n \in La!There(cache[c]) /\ La!Skip(c, n)
      <3>1. c \notin spoiled => cache[c] = labels
        BY <2>2 DEF LabelsInv, Reached
      <3> QED  BY <2>1, <2>2, <2>3, <3>1, Skipping
    <2>4. CASE /\ La!CanCreate(n) /\ labels' = [labels EXCEPT ![n] = GetColor[n]]
               /\ La!Spoils(c) /\ La!Done(c, n) /\ La!Forget(c) /\ gone' = gone
      <3>1. /\ labels' \in La!Lists /\ La!Unique(labels)'
            /\ La!There(labels') = La!There(labels) \cup {n}
        BY <1>1, <2>1, <2>4, Creating
      <3>2. PICK r \in Setting :
               /\ labelling' = [labelling EXCEPT ![c] = r]
               /\ r.at = labelling[c].at /\ r.begun = labelling[c].begun /\ r.want = labelling[c].want
               /\ \A m \in La!There(labelling[c].left) \ {n} : m \in La!There(r.left)
               /\ (Listed(labelling[c]) => Listed(r))
        BY <1>1, <2>1, <2>4, Leaving
      <3>3. c \notin spoiled' => c \notin spoiled
        BY <2>4 DEF La!Spoils
      <3>4. ASSUME c \notin spoiled PROVE Reached(r, Nothing, labels')
        <4>1. Reached(labelling[c], cache[c], labels)
          BY <3>4 DEF LabelsInv
        \* What is created is asked for.
        <4>2. LabelLower[n] \in r.want
          <5>1. n \in labelling[c].want /\ labelling[c].want \in Wants
            BY <1>3, <2>2 DEF Listed, LabelsInv
          <5> QED  BY <3>2, <5>1, LabelsConstants
        <4> QED  BY <2>2, <3>1, <3>2, <4>1, <4>2 DEF Reached
      <3>5. r.want \in Wants /\ Listed(r) /\ LeftAlone' /\ cache' = [cache EXCEPT ![c] = Nothing]
        BY <1>1, <1>3, <2>2, <2>4, <3>2 DEF LabelsInv, LeftAlone, La!Forget
      <3> QED  BY <1>4, <2>4, <3>1, <3>2, <3>3, <3>4, <3>5, Stepping
    <2> QED  BY <1>9, <2>2, <2>3, <2>4
  <1>19. ASSUME NEW c \in Callers, NEW n \in LabelNames, NEW ok \in BOOLEAN, La!DeleteLabel(c, n, ok)
         PROVE  LabelsInv'
    <2>1. /\ labelling[c].at = "delete"
          /\ \/ n \in labelling[c].want /\ La!Skip(c, n)
             \/ /\ n \notin labelling[c].want /\ n \in Protected /\ La!Done(c, n) /\ La!Forget(c)
                /\ La!Untouched
             \/ n \notin labelling[c].want /\ La!Delete(c, n) /\ La!Done(c, n) /\ La!Forget(c)
             \/ La!Raises(c)
      BY <1>19 DEF La!DeleteLabel, La!At, La!Wanted
    <2>2. CASE n \in labelling[c].want /\ La!Skip(c, n)
      BY <2>1, <2>2, Skipping
    <2>3. ASSUME La!Done(c, n)
          PROVE  \E r \in Setting :
               /\ labelling' = [labelling EXCEPT ![c] = r]
               /\ r.at = "delete" /\ r.begun = labelling[c].begun /\ r.want = labelling[c].want
               /\ \A m \in La!There(labelling[c].left) \ {n} : m \in La!There(r.left)
               /\ Listed(r) /\ r.want \in Wants
      <3>1. labelling[c].want \in Wants
        BY <2>1 DEF LabelsInv
      <3> QED  BY <1>1, <1>3, <2>1, <2>3, <3>1, Leaving
    <2>4. CASE /\ n \notin labelling[c].want /\ n \in Protected /\ La!Done(c, n) /\ La!Forget(c)
               /\ La!Untouched
      <3>1. PICK r \in Setting :
               /\ labelling' = [labelling EXCEPT ![c] = r]
               /\ r.at = "delete" /\ r.begun = labelling[c].begun /\ r.want = labelling[c].want
               /\ \A m \in La!There(labelling[c].left) \ {n} : m \in La!There(r.left)
               /\ Listed(r) /\ r.want \in Wants
        BY <2>3, <2>4
      <3>2. ASSUME c \notin spoiled PROVE Reached(r, Nothing, labels)
        <4>1. Reached(labelling[c], cache[c], labels)
          BY <3>2 DEF LabelsInv
        \* Its name without capitals would be asked for and there, and be it.
        <4>2. n \notin La!There(labels)
          <5> SUFFICES ASSUME n \in La!There(labels) PROVE FALSE
            OBVIOUS
          <5>1. LabelLower[n] \in labelling[c].want /\ LabelLower[n] \in La!There(labels)
            BY <2>1, <2>4, <4>1 DEF Reached
          <5>2. LabelLower[LabelLower[n]] = LabelLower[n]
            BY LabelsConstants
          <5>3. LabelLower[n] = n
            BY <1>1, <5>1, <5>2 DEF La!Unique
          <5> QED  BY <2>4, <5>1, <5>3
        <4> QED  BY <2>1, <3>1, <4>1, <4>2 DEF Reached
      <3>3. labels' = labels /\ spoiled' = spoiled /\ gone' = gone /\ cache' = [cache EXCEPT ![c] = Nothing]
        BY <2>4 DEF La!Untouched, La!Forget
      <3> QED  BY <1>4, <1>5, <3>1, <3>2, <3>3, Stepping
    <2>5. CASE n \notin labelling[c].want /\ La!Delete(c, n) /\ La!Done(c, n) /\ La!Forget(c)
      <3>1. PICK r \in Setting :
               /\ labelling' = [labelling EXCEPT ![c] = r]
               /\ r.at = "delete" /\ r.begun = labelling[c].begun /\ r.want = labelling[c].want
               /\ \A m \in La!There(labelling[c].left) \ {n} : m \in La!There(r.left)
               /\ Listed(r) /\ r.want \in Wants
        BY <2>3, <2>5
      <3>2. /\ labels' \in La!Lists /\ La!Unique(labels)' /\ La!Spoils(c)
            /\ La!There(labels') = La!There(labels) \ {n} /\ gone' = gone \cup {n}
        BY <1>1, <2>5, Deleting
      <3>3. c \notin spoiled' => c \notin spoiled
        BY <3>2 DEF La!Spoils
      <3>4. ASSUME c \notin spoiled PROVE Reached(r, Nothing, labels')
        <4>1. Reached(labelling[c], cache[c], labels)
          BY <3>4 DEF LabelsInv
        <4> QED  BY <2>1, <2>5, <3>1, <3>2, <4>1 DEF Reached
      <3>5. LeftAlone' /\ cache' = [cache EXCEPT ![c] = Nothing]
        BY <1>1, <2>5, <3>1, <3>2 DEF LeftAlone, La!Forget
      <3> QED  BY <1>4, <3>1, <3>2, <3>3, <3>4, <3>5, Stepping
    <2> QED  BY <1>9, <2>1, <2>2, <2>4, <2>5
  <1>20. ASSUME NEW c \in Callers, NEW n \in LabelNames, NEW ok \in BOOLEAN, La!Color(c, n, ok)
         PROVE  LabelsInv'
    <2>1. /\ labelling[c].at = "colors"
          /\ \/ labelling[c].left[n] = GetColor[n] /\ La!Skip(c, n)
             \/ labels[n] # Absent /\ La!Edit(c, n, n, GetColor[n]) /\ La!Done(c, n) /\ La!Forget(c)
             \/ La!Raises(c)
      BY <1>20 DEF La!Color, La!At
    <2>2. CASE labelling[c].left[n] = GetColor[n] /\ La!Skip(c, n)
      BY <2>1, <2>2, Skipping
    <2>3. CASE labels[n] # Absent /\ La!Edit(c, n, n, GetColor[n]) /\ La!Done(c, n) /\ La!Forget(c)
      <3>1. La!CanEdit(n, n) /\ GetColor[n] \in La!Colors /\ n \in La!There(labels)
        BY <1>1, <2>3, LabelsConstants DEF La!CanEdit, La!Unique, La!There
      <3>2. /\ labels' \in La!Lists /\ La!Unique(labels)' /\ La!Spoils(c)
            /\ La!There(labels') = La!There(labels) /\ gone' = gone
            /\ labels'[n] = GetColor[n] /\ \A k \in LabelNames \ {n} : labels'[k] = labels[k]
        <4>1. LabelsTypes /\ La!CanEdit(n, n) /\ La!Edit(c, n, n, GetColor[n]) /\ GetColor[n] \in La!Colors
          BY <1>1, <2>3, <3>1
        <4>2. /\ labels' \in La!Lists /\ La!Unique(labels)' /\ La!Spoils(c)
              /\ La!There(labels') = (La!There(labels) \ {n}) \cup {n} /\ gone' = gone \cup ({n} \ {n})
              /\ labels'[n] = GetColor[n] /\ \A k \in LabelNames \ {n, n} : labels'[k] = labels[k]
          BY <4>1, Editing
        <4> QED  BY <3>1, <4>2
      <3>3. PICK r \in Setting :
               /\ labelling' = [labelling EXCEPT ![c] = r]
               /\ r.at = labelling[c].at /\ r.begun = labelling[c].begun /\ r.want = labelling[c].want
               /\ r.left[n] = Absent /\ \A m \in LabelNames \ {n} : r.left[m] = labelling[c].left[m]
               /\ (Listed(labelling[c]) => Listed(r))
        BY <1>1, <2>3, Leaving
      <3>4. c \notin spoiled' => c \notin spoiled
        BY <3>2 DEF La!Spoils
      <3>5. ASSUME c \notin spoiled PROVE Reached(r, Nothing, labels')
        <4>1. Reached(labelling[c], cache[c], labels)
          BY <3>5 DEF LabelsInv
        <4>2. r.begun => \A m \in La!There(labels') : labels'[m] = GetColor[m] \/ r.left[m] = labels'[m]
          BY <2>1, <3>2, <3>3, <4>1 DEF Reached, La!There
        <4> QED  BY <2>1, <3>2, <3>3, <4>1, <4>2 DEF Reached
      <3>6. r.want \in Wants /\ Listed(r) /\ LeftAlone' /\ cache' = [cache EXCEPT ![c] = Nothing]
        BY <1>1, <1>3, <2>1, <2>3, <3>2, <3>3 DEF LabelsInv, LeftAlone, La!Forget
      <3> QED  BY <1>4, <3>2, <3>3, <3>4, <3>5, <3>6, Stepping
    <2> QED  BY <1>9, <2>1, <2>2, <2>3
  <1>21. CASE UNCHANGED La!vars
    <2>1. UNCHANGED <<labels, cache, labelling, spoiled, gone>>
      BY <1>21 DEF La!vars
    <2> QED  BY <2>1 DEF LabelsInv, LabelsTypes, Reached, Listed, LeftAlone, La!Unique, La!There
  <1>22. \A c : La!There(labelling[c].left) \subseteq LabelNames
    BY DEF La!There
  <1> QED  BY <1>6, <1>7, <1>8, <1>10, <1>11, <1>12, <1>13, <1>14, <1>16, <1>17, <1>18, <1>19, <1>20,
              <1>21, <1>22 DEF La!Next

\* The behaviours of Clients are behaviours of Labels.
LEMMA LabelsSteps == Spec => La!Spec
  <1>1. Init => La!Init
    BY DEF Init
  <1>2. [Next]_vars => [La!Next]_(La!vars)
    BY DEF Next, vars, DropletsRuns, CirclesRuns, FilesRuns, TreeRuns, SyncthingRuns, GatewayRuns,
       LabelsRuns, VestingRuns, StatsRuns, labelsVars, La!vars
  <1> QED  BY <1>1, <1>2, PTL DEF Spec, La!Spec

\* A call leaves the labels it was asked for in every state.
LEMMA LabelsKept == Spec => []La!LabelsAreSet
  <1>1. LabelsInv => La!LabelsAreSet
    <2> SUFFICES ASSUME LabelsInv PROVE La!LabelsAreSet
      OBVIOUS
    <2>1. ASSUME NEW c \in Callers \ spoiled, labelling[c].at = "done"
          PROVE  labels = [n \in LabelNames |-> IF n \in labelling[c].want THEN GetColor[n] ELSE Absent]
      <3>1. labels \in La!Lists /\ Reached(labelling[c], cache[c], labels)
        BY DEF LabelsInv, LabelsTypes
      <3>2. \A n \in LabelNames : labels[n] = IF n \in labelling[c].want THEN GetColor[n] ELSE Absent
        BY <2>1, <3>1 DEF Reached, La!There
      <3> QED  BY <3>1, <3>2 DEF La!Lists
    <2> QED  BY <2>1 DEF LabelsInv, LeftAlone, La!LabelsAreSet, La!At, La!Wanted
  <1> QED  BY <1>1, LabelsInit, LabelsNext, LabelsSteps, PTL DEF La!Spec

\* The labels, the lists and the calls that go by them stay typed.
LEMMA LabelsTyped == Spec => []La!TypeOK
  <1> DEFINE Ghosts == spoiled \subseteq Callers /\ gone \subseteq LabelNames
  <1>1. La!Init => Ghosts
    BY DEF La!Init
  <1>2. LabelsInv /\ Ghosts /\ [La!Next]_(La!vars) => Ghosts'
    <2> SUFFICES ASSUME LabelsInv, Ghosts, [La!Next]_(La!vars) PROVE Ghosts'
      OBVIOUS
    <2>1. \A c : La!Spoils(c) => spoiled' \subseteq Callers
      BY DEF La!Spoils
    <2>2. La!Untouched => Ghosts'
      BY DEF La!Untouched
    <2>3. \A c, m, color : \A n \in LabelNames : La!Edit(c, n, m, color) => Ghosts'
      BY <2>1 DEF La!Edit
    <2>4. \A c : \A n \in LabelNames : La!Delete(c, n) => Ghosts'
      BY <2>1 DEF La!Delete
    <2>5. ASSUME NEW c \in Callers, NEW n \in La!There(labelling[c].left), NEW ok, NEW deleted,
                 \/ La!Walk(c, n) \/ La!Rename(c, n, ok) \/ La!CreateLabel(c, n, ok)
                 \/ La!DeleteLabel(c, n, ok) \/ La!Color(c, n, ok) \/ La!Disown(c, n, ok, deleted)
          PROVE  Ghosts'
      <3>0. n \in LabelNames
        BY DEF La!There
      <3>1. CASE La!Walk(c, n)
        BY <3>1, <2>2 DEF La!Walk, La!Skip
      <3>2. CASE La!Rename(c, n, ok)
        BY <3>0, <3>2, <2>2, <2>3 DEF La!Rename, La!Skip, La!Raises
      <3>3. CASE La!CreateLabel(c, n, ok)
        BY <3>3, <2>1, <2>2 DEF La!CreateLabel, La!Skip, La!Raises
      <3>4. CASE La!DeleteLabel(c, n, ok)
        BY <3>0, <3>4, <2>2, <2>4 DEF La!DeleteLabel, La!Skip, La!Raises
      <3>5. CASE La!Color(c, n, ok)
        BY <3>0, <3>5, <2>2, <2>3 DEF La!Color, La!Skip, La!Raises
      <3>6. CASE La!Disown(c, n, ok, deleted)
        BY <3>0, <3>6, <2>2, <2>3, <2>4 DEF La!Disown, La!Raises
      <3> QED  BY <2>5, <3>1, <3>2, <3>3, <3>4, <3>5, <3>6
    <2>6. ASSUME NEW c \in Callers, NEW want, La!Renew(c) \/ La!LabelsSet(c, want) \/ La!Load(c)
          PROVE  Ghosts'
      BY <2>6 DEF La!Renew, La!LabelsSet, La!Load
    <2>7. ASSUME NEW c \in Callers,
                 La!LoadFails(c) \/ La!BeginLoop(c) \/ La!EndLoop(c) \/ La!Return(c)
          PROVE  Ghosts'
      BY <2>2, <2>7 DEF La!LoadFails, La!Raises, La!BeginLoop, La!EndLoop, La!Return
    <2>8. CASE UNCHANGED La!vars
      BY <2>8 DEF La!vars
    <2> HIDE DEF Ghosts
    <2> QED  BY <2>5, <2>6, <2>7, <2>8 DEF La!Next
  <1>3. LabelsInv /\ Ghosts => La!TypeOK
    BY DEF LabelsInv, LabelsTypes, Setting, La!TypeOK
  <1> HIDE DEF Ghosts
  <1> QED  BY <1>1, <1>2, <1>3, LabelsInit, LabelsNext, LabelsSteps, PTL DEF La!Spec

-----------------------------------------------------------------------------
(* Vesting.                                                                *)

\* The constants of the vesting accounts: nine cosigners, and who is none of them.
LEMMA VestingConstants ==
  /\ IsFiniteSet(Ve!Keys) /\ Cardinality(Cosigners) = 9
  /\ Owner \notin Cosigners /\ Account \notin Cosigners \cup {Owner}
  /\ IsFiniteSet(DOMAIN Transactions) /\ Known \subseteq DOMAIN Transactions
  /\ \A t \in DOMAIN Transactions :
       Transactions[t].ops \in Seq([type : STRING, own_source : BOOLEAN, right : BOOLEAN])
  /\ {0, 1, 5, 10} \subseteq Weights /\ Weights \subseteq Nat /\ MaxChanges \in Nat
  BY ClientsAssumption
  DEF ClientsAssumption, Ve!VestingAssumption, Ve!IsFiniteSet, IsFiniteSet, Ve!Cardinality, Cardinality

\* An account begins typed.
LEMMA VestingInit == Ve!Init => Ve!TypeOK
  BY VestingConstants DEF Ve!Init, Ve!TypeOK

\* Every change of an account keeps it typed.
LEMMA VestingNext ==
  ASSUME Ve!TypeOK, [Ve!Next]_(Ve!vars)
  PROVE  Ve!TypeOK'
  <1>1. ASSUME Ve!Change PROVE changes' \in 0 .. MaxChanges
    BY <1>1, VestingConstants DEF Ve!Change, Ve!TypeOK
  <1>2. ASSUME NEW k \in Ve!Keys, NEW w \in Weights, Ve!SetWeight(k, w) PROVE Ve!TypeOK'
    BY <1>1, <1>2 DEF Ve!SetWeight, Ve!TypeOK
  <1>3. ASSUME NEW t \in DOMAIN Transactions, NEW w \in Weights, Ve!SetPreauth(t, w) PROVE Ve!TypeOK'
    BY <1>1, <1>3 DEF Ve!SetPreauth, Ve!TypeOK
  <1>4. ASSUME NEW kind \in Ve!Kinds, NEW w \in Weights, Ve!SetThreshold(kind, w) PROVE Ve!TypeOK'
    BY <1>1, <1>4 DEF Ve!SetThreshold, Ve!TypeOK
  <1>5. CASE Ve!SetData
    BY <1>1, <1>5 DEF Ve!SetData, Ve!TypeOK
  <1>6. CASE UNCHANGED Ve!vars
    BY <1>6 DEF Ve!vars, Ve!TypeOK
  <1> QED  BY <1>2, <1>3, <1>4, <1>5, <1>6 DEF Ve!Next

\* What the account of a scheme weighs: the five of the owner and one for each cosigner.
LEMMA VestingWeights ==
  ASSUME Ve!TypeOK, NEW S \in SUBSET Ve!Keys,
         \A k \in Cosigners : weights[k] = 1, weights[Owner] = 5,
         \A k \in Ve!Keys \ (Cosigners \cup {Owner}) : weights[k] = 0
  PROVE  /\ Ve!Weight(S) = (IF Owner \in S THEN 5 ELSE 0) + Cardinality(S \cap Cosigners)
         /\ Cardinality(S \cap Cosigners) \in 0 .. 9
  <1> DEFINE C == S \cap Cosigners
             O == S \cap {Owner}
  <1>1. Ve!Weight(S) = Sum(weights, S)
    BY DEF Ve!Weight, Ve!FoldSet, Ve!MapThenFoldSet, Sum, FoldSet, MapThenFoldSet
  <1>2. IsFiniteSet(S) /\ IsFiniteSet(Cosigners) /\ IsFiniteSet(C)
    <2>1. S \in SUBSET Ve!Keys /\ Cosigners \in SUBSET Ve!Keys /\ C \in SUBSET Ve!Keys
      BY DEF Ve!Keys
    <2> QED  BY <2>1, VestingConstants, FS_Subset
  <1>3. \A k \in S : weights[k] \in Int
    BY VestingConstants DEF Ve!TypeOK
  <1>4. Sum(weights, S) = Sum(weights, C \cup O)
    <2>1. C \cup O \in SUBSET S /\ \A k \in S \ (C \cup O) : weights[k] = 0
      OBVIOUS
    <2> QED  BY <1>2, <1>3, <2>1, SumOfRest
  <1>5. Sum(weights, C \cup O) = Sum(weights, C) + Sum(weights, O)
    <2>1. C \in SUBSET S /\ O \in SUBSET S /\ C \cap O = {}
      BY VestingConstants
    <2> QED  BY <1>2, <1>3, <2>1, SumOfParts
  <1>6. Sum(weights, C) = Cardinality(C)
    <2>1. \A k \in C : weights[k] = 1
      OBVIOUS
    <2> QED  BY <1>2, <2>1, SumOfOnes, C \in SUBSET C
  <1>7. Sum(weights, O) = IF Owner \in S THEN 5 ELSE 0
    <2>1. CASE Owner \in S
      <3>1. O = {} \cup {Owner} /\ Owner \in S \ {}
        BY <2>1
      <3>2. Sum(weights, {} \cup {Owner}) = weights[Owner] + Sum(weights, {})
        BY <1>2, <1>3, <3>1, SumTakesIn, {} \in SUBSET S
      <3> QED  BY <2>1, <3>1, <3>2, SumEmpty
    <2>2. CASE Owner \notin S
      <3>1. O = {}
        BY <2>2
      <3> QED  BY <2>2, <3>1, SumEmpty
    <2> QED  BY <2>1, <2>2
  <1>8. Cardinality(C) \in Nat /\ Cardinality(C) <= 9
    BY <1>2, VestingConstants, FS_Subset, FS_CardinalityType, C \in SUBSET Cosigners
  <1> QED  BY <1>1, <1>4, <1>5, <1>6, <1>7, <1>8

\* The signers of an account that is taken for a vesting account: nobody else, and at most
\* one transaction, which cleans up.
LEMMA VestingSigners ==
  ASSUME Ve!TypeOK, Ve!VerifySigners
  PROVE  /\ \A k \in Ve!Keys \ (Cosigners \cup {Owner}) : weights[k] = 0
         /\ \A t \in Ve!SigningTransactions : Ve!IsValidCleanup(t)
  <1> DEFINE Eleven == Cosigners \cup {Owner, Account}
             K == Ve!SigningKeys
             T == Ve!SigningTransactions
  <1>1. \A S : Ve!Cardinality(S) = Cardinality(S)
    BY DEF Ve!Cardinality, Cardinality
  <1>2. IsFiniteSet(K) /\ IsFiniteSet(T) /\ IsFiniteSet(Cosigners)
    <2>1. K \in SUBSET Ve!Keys /\ T \in SUBSET DOMAIN Transactions /\ Cosigners \in SUBSET Ve!Keys
      BY DEF Ve!SigningKeys, Ve!SigningTransactions, Ve!Keys
    <2> QED  BY <2>1, VestingConstants, FS_Subset
  <1>3. Cardinality(K) \in Nat /\ Cardinality(T) \in Nat
    BY <1>2, FS_CardinalityType
  <1>4. IsFiniteSet(Eleven) /\ Cardinality(Eleven) = 11
    <2>1. IsFiniteSet(Cosigners \cup {Owner}) /\ Cardinality(Cosigners \cup {Owner}) = 10
      BY <1>2, VestingConstants, FS_AddElement
    <2>2. (Cosigners \cup {Owner}) \cup {Account} = Eleven
      OBVIOUS
    <2>3. Cardinality((Cosigners \cup {Owner}) \cup {Account}) = 11
          /\ IsFiniteSet((Cosigners \cup {Owner}) \cup {Account})
      <3>1. Account \notin Cosigners \cup {Owner}
        BY VestingConstants
      <3> HIDE DEF Eleven
      <3> QED  BY <2>1, <3>1, FS_AddElement
    <2> QED  BY <2>2, <2>3
  <1>5. Eleven \in SUBSET K
    BY VestingConstants DEF Ve!VerifySigners, Ve!SigningKeys, Ve!Keys
  <1>6. 11 <= Cardinality(K) /\ (Cardinality(K) = 11 => K = Eleven)
    BY <1>2, <1>4, <1>5, FS_Subset
  <1>7. \/ Cardinality(K) + Cardinality(T) = 11
        \/ Cardinality(K) + Cardinality(T) = 12 /\ \E t \in T : Ve!IsValidCleanup(t)
    BY <1>1 DEF Ve!VerifySigners, Ve!NumSigners
  <1>8. Cardinality(K) = 11 /\ (T = {} \/ \E t \in T : T = {t} /\ Ve!IsValidCleanup(t))
    <2>1. T # {} => Cardinality(T) >= 1
      BY <1>2, <1>3, FS_EmptySet
    <2>2. Cardinality(T) = 1 => \E t : T = {t}
      BY <1>2, FS_Singleton
    <2>3. Cardinality(T) = 0 => T = {}
      BY <1>2, FS_EmptySet
    <2>4. CASE Cardinality(K) + Cardinality(T) = 11
      BY <1>3, <1>6, <2>3, <2>4
    <2>5. CASE Cardinality(K) + Cardinality(T) = 12 /\ \E t \in T : Ve!IsValidCleanup(t)
      <3>1. PICK t \in T : Ve!IsValidCleanup(t)
        BY <2>5
      <3>2. Cardinality(T) = 1 /\ Cardinality(K) = 11
        BY <1>3, <1>6, <2>1, <2>5, <3>1
      <3>3. T = {t}
        BY <2>2, <3>1, <3>2
      <3> QED  BY <3>1, <3>2, <3>3
    <2> QED  BY <1>7, <2>4, <2>5
  <1>9. \A k \in Ve!Keys \ (Cosigners \cup {Owner}) : weights[k] = 0
    <2> SUFFICES ASSUME NEW k \in Ve!Keys \ (Cosigners \cup {Owner}), weights[k] # 0 PROVE FALSE
      OBVIOUS
    <2>1. weights[k] \in Nat /\ weights[k] > 0
      <3>1. weights[k] \in Weights
        BY DEF Ve!TypeOK
      <3>2. weights[k] \in Nat
        BY <3>1, VestingConstants
      <3> QED  BY <3>2
    <2>2. k \in K /\ k # Account
      BY <2>1 DEF Ve!SigningKeys, Ve!VerifySigners
    <2> QED  BY <1>6, <1>8, <2>2
  <1> QED  BY <1>8, <1>9

\* An account that is taken for a vesting account is safe as one, whatever was done to it: what
\* the check reads of it is enough.
LEMMA VestingSafe == Ve!TypeOK => Ve!VestingIsSafe
  <1> SUFFICES ASSUME Ve!TypeOK, Ve!IsVestingAccount PROVE Ve!VestingIsSafe
    BY DEF Ve!VestingIsSafe
  <1>1. Ve!VerifySigners
    BY DEF Ve!IsVestingAccount
  <1>2. ASSUME NEW S \in SUBSET Ve!Keys, NEW kind \in Ve!Kinds
        PROVE  Ve!Weight(S) >= thresholds[kind] <=> Owner \in S /\ Ve!Cardinality(S \cap Cosigners) >= 5
    <2>1. Ve!Weight(S) = (IF Owner \in S THEN 5 ELSE 0) + Cardinality(S \cap Cosigners)
          /\ Cardinality(S \cap Cosigners) \in 0 .. 9
      BY <1>1, VestingSigners, VestingWeights DEF Ve!VerifySigners
    <2>2. thresholds[kind] = 10
      BY <1>1 DEF Ve!VerifySigners
    <2>3. Ve!Cardinality(S \cap Cosigners) = Cardinality(S \cap Cosigners)
      BY DEF Ve!Cardinality, Cardinality
    <2> QED  BY <2>1, <2>2, <2>3
  <1>3. ASSUME NEW t \in Ve!SigningTransactions
        PROVE  /\ Transactions[t].source = Account
               /\ [op \in 1 .. Len(Transactions[t].ops) |-> Transactions[t].ops[op].type]
                    = <<"change_trust", "manage_data", "account_merge">>
               /\ \A op \in Ve!ToSet(Transactions[t].ops) : op.right /\ ~op.own_source
    <2> DEFINE ops == Transactions[t].ops
    <2>1. Ve!IsValidCleanup(t)
      BY <1>1, VestingSigners
    <2>2. t \in DOMAIN Transactions /\ ops \in Seq([type : STRING, own_source : BOOLEAN, right : BOOLEAN])
      BY VestingConstants DEF Ve!SigningTransactions
    <2>3. /\ Transactions[t].source = Account /\ Len(ops) = 3
          /\ ops[1] = [type |-> "change_trust", own_source |-> FALSE, right |-> TRUE]
          /\ ops[2] = [type |-> "manage_data", own_source |-> FALSE, right |-> TRUE]
          /\ ops[3] = [type |-> "account_merge", own_source |-> FALSE, right |-> TRUE]
      BY <2>1 DEF Ve!IsValidCleanup
    <2> HIDE DEF ops
    <2>4. DOMAIN ops = 1 .. 3
      BY <2>2, <2>3
    <2>5. \A op \in Ve!ToSet(ops) : op.right /\ ~op.own_source
      BY <2>3, <2>4 DEF Ve!ToSet
    <2>6. [op \in 1 .. Len(ops) |-> ops[op].type] = <<"change_trust", "manage_data", "account_merge">>
      BY <2>3
    <2> QED  BY <2>3, <2>5, <2>6 DEF ops
  <1> QED  BY <1>2, <1>3 DEF Ve!VestingIsSafe

\* The behaviours of Clients are behaviours of Vesting.
LEMMA VestingSteps == Spec => Ve!Spec
  <1>1. Init => Ve!Init
    BY DEF Init
  <1>2. [Next]_vars => [Ve!Next]_(Ve!vars)
    BY DEF Next, vars, DropletsRuns, CirclesRuns, FilesRuns, TreeRuns, SyncthingRuns,
       GatewayRuns, LabelsRuns, VestingRuns, StatsRuns, vestingVars, Ve!vars
  <1> QED  BY <1>1, <1>2, PTL DEF Spec, Ve!Spec

\* An account stays typed, and safe if it is taken for a vesting account.
LEMMA VestingKept == Spec => [](Ve!TypeOK /\ Ve!VestingIsSafe)
  BY VestingInit, VestingNext, VestingSafe, VestingSteps, PTL DEF Ve!Spec

-----------------------------------------------------------------------------
(* Stats.                                                                  *)

Requests == [at : {"idle", "total", "page", "lookup", "answer"}, of : Endpoints,
             total : 0 .. Supply, cursor : St!Accounts \cup {0},
             counted : SUBSET St!Accounts, amount : [St!Accounts -> 0 .. Supply]]

\* A request that has read the total has counted what was locked all the while, as far
\* as it has come, with what it has; none that never was; and for what it has now, unless
\* a token was moved.
Counting ==
    /\ call.total = Supply
    /\ locked \subseteq ever
    /\ call.counted \subseteq ever
    /\ \A a \in steady : \/ call.at = "page" /\ a > call.cursor
                         \/ a \in call.counted /\ call.amount[a] = tokens[a]
    /\ moved \/ \A a \in call.counted : call.amount[a] = tokens[a]

\* All tokens are in accounts that hold the token.
StatsInv ==
    /\ tokens \in [St!Accounts -> 0 .. Supply]
    /\ Sum(tokens, St!Accounts) = Supply
    /\ \A a \in St!Accounts \ held : tokens[a] = 0
    /\ locked \subseteq held /\ held \subseteq St!Accounts
    /\ call \in Requests
    /\ cached \subseteq Endpoints
    /\ steady \subseteq locked /\ ever \subseteq St!Accounts /\ moved \in BOOLEAN
    /\ call.at = "total" => call.counted = {} /\ call.cursor = 0
    /\ call.at \in {"page", "lookup", "answer"} => Counting

\* The constants of the statistics: accounts are numbers from 1 on.
LEMMA StatsConstants ==
  /\ MaxAccounts \in Nat \ {0} /\ PageSize \in Nat \ {0} /\ Supply \in Nat /\ Detailed \in Endpoints
  /\ St!Accounts \subseteq Nat /\ IsFiniteSet(St!Accounts) /\ 0 \notin St!Accounts /\ 1 \in St!Accounts
  <1>1. /\ MaxAccounts \in Nat \ {0} /\ PageSize \in Nat \ {0} /\ Supply \in Nat
        /\ Detailed \in Endpoints
    BY ClientsAssumption DEF ClientsAssumption, St!StatsAssumption
  <1>2. St!Accounts = 1 .. MaxAccounts
    BY DEF St!Accounts
  <1> QED  BY <1>1, <1>2, FS_Interval

\* The sum of Stats is the one that the lemmas about sums are of.
LEMMA StatsSum == \A f, S : St!Sum(f, S) = Sum(f, S)
  BY DEF St!Sum, St!FoldSet, St!MapThenFoldSet, Sum, FoldSet, MapThenFoldSet

\* No request is one that is idle.
LEMMA IdleIsRequest == St!Idle \in Requests /\ St!Idle.at = "idle"
  BY StatsConstants DEF St!Idle, St!NoTokens, Requests

\* What is held is all there is.
LEMMA HeldIsAll ==
  ASSUME StatsInv
  PROVE  /\ Sum(tokens, held) = Supply
         /\ \A S \in SUBSET St!Accounts : Sum(tokens, S) \in 0 .. Supply
  <1>1. /\ \A a \in St!Accounts : tokens[a] \in Nat
        /\ held \in SUBSET St!Accounts /\ \A a \in St!Accounts \ held : tokens[a] = 0
    BY StatsConstants DEF StatsInv
  <1>2. Sum(tokens, St!Accounts) = Sum(tokens, held)
    <2>1. IsFiniteSet(St!Accounts) /\ \A a \in St!Accounts : tokens[a] \in Int
      BY <1>1, StatsConstants
    <2> QED  BY <1>1, <2>1, SumOfRest
  <1>3. Sum(tokens, St!Accounts) = Supply
    BY DEF StatsInv
  <1>4. ASSUME NEW S \in SUBSET St!Accounts PROVE Sum(tokens, S) \in 0 .. Supply
    <2>1. Sum(tokens, S) <= Sum(tokens, St!Accounts)
      BY <1>1, StatsConstants, SumOfPart
    <2>2. Sum(tokens, S) \in Nat
      BY <1>1, StatsConstants, SumIsNat
    <2> QED  BY <1>3, <2>1, <2>2, StatsConstants
  <1> QED  BY <1>2, <1>3, <1>4

\* The ledger begins with all tokens in one account and nothing counted.
LEMMA StatsInit == St!Init => StatsInv
  <1> SUFFICES ASSUME St!Init PROVE StatsInv
    OBVIOUS
  <1>1. /\ tokens = [St!NoTokens EXCEPT ![1] = Supply] /\ held = {1} /\ locked = {}
        /\ call = St!Idle /\ cached = {} /\ steady = {} /\ ever = {} /\ moved = FALSE
    BY DEF St!Init
  <1>2. /\ tokens \in [St!Accounts -> 0 .. Supply] /\ tokens[1] = Supply
        /\ \A a \in St!Accounts \ {1} : tokens[a] = 0
    BY <1>1, StatsConstants DEF St!NoTokens
  <1>3. Sum(tokens, St!Accounts) = Sum(tokens, {1})
    <2>1. {1} \in SUBSET St!Accounts /\ \A a \in St!Accounts : tokens[a] \in Int
      BY <1>2, StatsConstants
    <2> QED  BY <1>2, <2>1, StatsConstants, SumOfRest
  <1>4. Sum(tokens, {1}) = Supply
    BY <1>2, StatsConstants, SumOfOne
  <1> QED  BY <1>1, <1>2, <1>3, <1>4, IdleIsRequest, StatsConstants DEF StatsInv

\* A payment leaves what there is, and nobody has more than that.
LEMMA MoveKeepsSum ==
  ASSUME StatsInv, NEW a \in St!Accounts, NEW b \in St!Accounts, a # b, tokens[a] > 0,
         NEW new, new = [tokens EXCEPT ![a] = @ - 1, ![b] = @ + 1]
  PROVE  new \in [St!Accounts -> 0 .. Supply] /\ Sum(new, St!Accounts) = Supply
  <1> DEFINE A == St!Accounts
  <1>1. \A x \in A : tokens[x] \in Nat
    BY StatsConstants DEF StatsInv
  <1>2. new \in [A -> Nat] /\ new[a] = tokens[a] - 1 /\ new[b] = tokens[b] + 1
        /\ \A x \in A \ {a, b} : new[x] = tokens[x]
    <2>1. tokens \in [A -> 0 .. Supply] /\ tokens[a] \in Nat /\ tokens[b] \in Nat
      BY <1>1 DEF StatsInv
    <2>2. new = [x \in A |-> IF x = b THEN tokens[b] + 1 ELSE IF x = a THEN tokens[a] - 1 ELSE tokens[x]]
      BY <2>1
    <2> QED  BY <1>1, <2>1, <2>2
  <1>3. IsFiniteSet(A)
    BY StatsConstants
  <1>4. a \in A /\ b \in A
    OBVIOUS
  <1> HIDE DEF A
  <1>5. \A x \in A : tokens[x] \in Int /\ new[x] \in Int
    BY <1>1, <1>2
  <1>6. Sum(new, A) = Sum(tokens, A)
    BY <1>2, <1>3, <1>4, <1>5, SumMoves
  <1>7. Sum(new, A) = Supply
    BY <1>6 DEF StatsInv, A
  <1>8. \A x \in A : new[x] \in Nat
    BY <1>2
  <1>9. \A x \in A : new[x] <= Supply
    BY <1>3, <1>7, <1>8, SumOfAll, Zenon
  <1> QED  BY <1>2, <1>7, <1>8, <1>9, StatsConstants DEF A

\* A page has all accounts up to its last, and one unless there is none.
LEMMA PageFacts ==
  ASSUME held \subseteq St!Accounts, NEW c \in St!Accounts \cup {0}
  PROVE  /\ St!Page(c) \subseteq held
         /\ St!NextCursor(c, St!Page(c)) \in St!Accounts \cup {0}
         /\ St!NextCursor(c, St!Page(c)) = c => \A a \in held : a <= c
         /\ \A a \in held : c < a /\ a <= St!NextCursor(c, St!Page(c)) => a \in St!Page(c)
  <1> DEFINE rest == {a \in held : a > c}
             P == St!Page(c)
             below(a) == {b \in rest : b < a}
  <1>1. \A S : St!Cardinality(S) = Cardinality(S) /\ St!Max(S) = Max(S)
    BY DEF St!Cardinality, Cardinality, St!Max, Max
  <1>2. P = {a \in rest : Cardinality(below(a)) < PageSize}
    BY <1>1 DEF St!Page
  <1>3. /\ held \subseteq Nat /\ IsFiniteSet(held) /\ c \in Nat
        /\ rest \subseteq held /\ \A a \in rest : a > c
    <2>1. held \in SUBSET St!Accounts
      OBVIOUS
    <2>2. IsFiniteSet(held)
      BY <2>1, StatsConstants, FS_Subset
    <2> QED  BY <2>2, StatsConstants
  <1> HIDE DEF rest
  <1>4. IsFiniteSet(rest) /\ rest \in SUBSET Nat /\ \A a : below(a) \in SUBSET rest
    <2>1. rest \in SUBSET held
      BY <1>3
    <2> QED  BY <1>3, <2>1, FS_Subset
  <1>5. P \in SUBSET rest /\ P \in SUBSET Int
    <2>1. P \subseteq rest
      BY <1>2
    <2> HIDE DEF P
    <2> QED  BY <1>4, <2>1
  <1>9. IsFiniteSet(P)
    <2> HIDE DEF P
    <2> QED  BY <1>4, <1>5, FS_Subset
  <1>10. \A a : IsFiniteSet(below(a)) /\ Cardinality(below(a)) \in Nat
    <2> HIDE DEF below
    <2> QED  BY <1>4, FS_Subset, FS_CardinalityType
  <1> HIDE DEF P
  <1>6. rest # {} => P # {}
    <2> SUFFICES ASSUME rest # {} PROVE P # {}
      OBVIOUS
    <2>1. PICK m \in rest : \A x \in rest : m <= x
      BY <1>4, SomeSmallest
    <2>2. below(m) = {}
      <3>1. m \in Nat /\ \A x \in rest : x \in Nat
        BY <1>4
      <3>2. SUFFICES ASSUME NEW x \in below(m) PROVE FALSE
        BY Zenon
      <3>3. x \in rest /\ x < m
        OBVIOUS
      <3> HIDE DEF below
      <3> QED  BY <2>1, <3>1, <3>3
    <2>3. Cardinality(below(m)) = 0
      BY <2>2, FS_EmptySet
    <2> QED  BY <1>2, <2>1, <2>3, StatsConstants
  <1>7. CASE P = {}
    <2>1. St!NextCursor(c, P) = c
      BY <1>7 DEF St!NextCursor
    <2>2. \A a \in held : ~ (a > c)
      BY <1>6, <1>7 DEF rest
    <2> QED  BY <1>3, <1>5, <2>1, <2>2, StatsConstants DEF P
  <1>8. CASE P # {}
    <2> DEFINE m == Max(P)
    <2>1. m \in P /\ \A x \in P : x <= m
      BY <1>5, <1>8, <1>9, MaxIsLargest
    <2> HIDE DEF m
    <2>2. St!NextCursor(c, P) = m
      BY <1>1, <1>8 DEF St!NextCursor, m
    <2>3. m \in rest /\ m \in held /\ m > c /\ m \in Nat /\ m # c
      BY <1>3, <1>5, <2>1
    <2>4. ASSUME NEW a \in held, c < a, a <= m PROVE a \in P
      <3>1. a \in rest
        BY <2>4 DEF rest
      <3>2. a \in Nat /\ below(a) \in SUBSET below(m)
        <4>1. a \in Nat /\ \A x \in rest : x \in Nat
          BY <1>4, <3>1
        <4>2. SUFFICES ASSUME NEW x \in below(a) PROVE x \in below(m)
          BY <4>1, Zenon
        <4>3. x \in rest /\ x < a
          OBVIOUS
        <4> QED  BY <2>3, <2>4, <4>1, <4>3
      <3>3. Cardinality(below(a)) <= Cardinality(below(m))
        <4> HIDE DEF below
        <4> QED  BY <1>10, <3>2, FS_Subset
      <3>4. Cardinality(below(m)) < PageSize
        BY <1>2, <2>1
      <3>5. Cardinality(below(a)) < PageSize
        BY <1>10, <3>3, <3>4, StatsConstants
      <3> QED  BY <1>2, <3>1, <3>5
    <2> QED  BY <1>3, <1>5, <2>2, <2>3, <2>4 DEF P
  <1> QED  BY <1>7, <1>8

\* Requests that carry nothing count nothing.
LEMMA IdleKeeps ==
  ASSUME StatsInv, call' = St!Idle, UNCHANGED <<tokens, held, locked>>,
         UNCHANGED <<steady, ever, moved>>, cached' \subseteq Endpoints
  PROVE  StatsInv'
  <1>1. call' \in Requests /\ call'.at = "idle"
    BY IdleIsRequest
  <1> QED  BY <1>1 DEF StatsInv, St!Accounts

\* An account that comes to hold the token keeps what is counted.
LEMMA StatsHold ==
  ASSUME StatsInv, NEW a \in St!Accounts, NEW lock \in BOOLEAN, St!Hold(a, lock)
  PROVE  StatsInv'
  <1>1. /\ a \notin held /\ held' = held \cup {a}
        /\ locked' \subseteq locked \cup {a} /\ locked \subseteq locked'
        /\ ever' = ever \cup locked'
        /\ steady' = steady /\ UNCHANGED <<call, cached, tokens, moved>>
    BY DEF St!Hold, St!Goes
  <1>2. call.at \in {"page", "lookup", "answer"} => Counting'
    BY <1>1 DEF StatsInv, Counting
  <1> QED  BY <1>1, <1>2 DEF StatsInv, St!Accounts

\* Tokens that are unlocked keep what is counted.
LEMMA StatsUnlock ==
  ASSUME StatsInv, NEW a \in St!Accounts, St!Unlock(a)
  PROVE  StatsInv'
  <1>1. /\ locked' = locked \ {a} /\ steady' = steady \ {a}
        /\ UNCHANGED <<call, cached, tokens, held, ever, moved>>
    BY DEF St!Unlock, St!Goes
  <1>2. call.at \in {"page", "lookup", "answer"} => Counting'
    BY <1>1 DEF StatsInv, Counting
  <1> QED  BY <1>1, <1>2 DEF StatsInv, St!Accounts

\* An account that gives up the token keeps what is counted.
LEMMA StatsClose ==
  ASSUME StatsInv, NEW a \in St!Accounts, St!Close(a)
  PROVE  StatsInv'
  <1>1. /\ a \notin locked /\ tokens[a] = 0 /\ held' = held \ {a} /\ steady' = steady
        /\ UNCHANGED <<call, cached, tokens, locked, ever, moved>>
    BY DEF St!Close, St!Goes
  <1>2. call.at \in {"page", "lookup", "answer"} => Counting'
    BY <1>1 DEF StatsInv, Counting
  <1> QED  BY <1>1, <1>2 DEF StatsInv, St!Accounts

\* A payment keeps what is counted.
LEMMA StatsMove ==
  ASSUME StatsInv, NEW a \in St!Accounts, NEW b \in St!Accounts, St!Move(a, b)
  PROVE  StatsInv'
  <1>1. /\ a \in held \ locked /\ tokens[a] > 0 /\ b \in held /\ a # b
        /\ tokens' = [tokens EXCEPT ![a] = @ - 1, ![b] = @ + 1]
        /\ moved' = TRUE /\ steady' = steady \ {a, b}
        /\ UNCHANGED <<call, cached, held, locked, ever>>
    BY DEF St!Move, St!Goes
  <1>2. tokens' \in [St!Accounts -> 0 .. Supply] /\ Sum(tokens', St!Accounts) = Supply
    BY <1>1, MoveKeepsSum
  <1>3. \A x \in St!Accounts \ {a, b} : tokens'[x] = tokens[x]
    BY <1>1 DEF StatsInv
  <1>4. call.at \in {"page", "lookup", "answer"} => Counting'
    <2>1. \A x \in steady' : x \in St!Accounts \ {a, b} /\ x \in steady
      BY <1>1 DEF StatsInv
    <2> QED  BY <1>1, <1>3, <2>1 DEF StatsInv, Counting
  <1>5. \A x \in St!Accounts \ held' : tokens'[x] = 0
    BY <1>1, <1>3 DEF StatsInv
  <1>6. St!Accounts' = St!Accounts
    BY DEF St!Accounts
  <1>7. steady' \subseteq locked'
    BY <1>1 DEF StatsInv
  <1>8. \A S : Sum(tokens', S) = Sum(tokens, S)'
    OBVIOUS
  <1> QED  BY <1>1, <1>2, <1>4, <1>5, <1>6, <1>7 DEF StatsInv

\* Reading the total begins the count.
LEMMA StatsReadTotal == ASSUME StatsInv, St!ReadTotal PROVE StatsInv'
  <1> DEFINE c == [call EXCEPT !.at = "page", !.total = St!Sum(tokens, held)]
  <1>1. /\ call.at = "total" /\ call' = c
        /\ steady' = locked /\ ever' = locked /\ moved' = FALSE
        /\ UNCHANGED <<tokens, held, locked, cached>>
    BY DEF St!ReadTotal, St!Ledger, St!Is
  <1>2. St!Sum(tokens, held) = Supply /\ Supply \in 0 .. Supply
    BY HeldIsAll, StatsSum, StatsConstants
  <1>3. /\ c \in Requests /\ c.at = "page" /\ c.total = Supply /\ c.cursor = 0
        /\ c.counted = {}
    BY <1>1, <1>2 DEF StatsInv, Requests
  <1> HIDE DEF c
  <1>4. Counting'
    <2>1. \A a \in locked : a > 0
      BY StatsConstants DEF StatsInv
    <2> QED  BY <1>1, <1>3, <2>1 DEF StatsInv, Counting
  <1>5. \A S : Sum(tokens', S) = Sum(tokens, S)
    BY <1>1
  <1> QED  BY <1>1, <1>3, <1>4, <1>5 DEF StatsInv, St!Accounts

\* Reading a page counts the accounts up to its last.
LEMMA StatsReadPage == ASSUME StatsInv, St!ReadPage PROVE StatsInv'
  <1> DEFINE page == St!Page(call.cursor)
             next == St!NextCursor(call.cursor, page)
             amount == [a \in St!Accounts |-> IF a \in page \cap locked THEN tokens[a]
                                              ELSE call.amount[a]]
             counted == call.counted \cup (page \cap locked)
             at == IF next # call.cursor THEN "page"
                   ELSE IF call.of = Detailed THEN "lookup" ELSE "answer"
             c == [call EXCEPT !.at = at, !.cursor = next, !.counted = counted, !.amount = amount]
  <1>1. /\ call.at = "page"
        /\ call' = IF next = 0 THEN St!Idle
                   ELSE [call EXCEPT
                          !.at = IF next # call.cursor THEN "page"
                                 ELSE IF call.of = Detailed THEN "lookup" ELSE "answer",
                          !.cursor = next,
                          !.counted = @ \cup (page \cap locked),
                          !.amount = [a \in St!Accounts |-> IF a \in page \cap locked THEN tokens[a]
                                                            ELSE @[a]]]
        /\ UNCHANGED <<tokens, held, locked>> /\ UNCHANGED <<steady, ever, moved>>
        /\ UNCHANGED cached
    BY DEF St!ReadPage, St!Is, St!Ledger, St!Ghosts
  <1>2. CASE next = 0
    <2>1. call' = St!Idle
      BY <1>1, <1>2
    <2> QED  BY <1>1, <2>1, IdleKeeps DEF StatsInv
  <1>3. CASE next # 0
    <2>1. call' = c
      BY <1>1, <1>3
    <2>2. /\ page \subseteq held /\ next \in St!Accounts \cup {0}
          /\ next = call.cursor => \A a \in held : a <= call.cursor
          /\ \A a \in held : call.cursor < a /\ a <= next => a \in page
      <3>1. held \subseteq St!Accounts /\ call.cursor \in St!Accounts \cup {0}
        BY DEF StatsInv, Requests
      <3> QED  BY <3>1, PageFacts
    <2> HIDE DEF page, next
    <2>3. /\ call \in Requests /\ tokens \in [St!Accounts -> 0 .. Supply]
          /\ locked \subseteq St!Accounts /\ page \cap locked \subseteq St!Accounts
      BY DEF StatsInv
    <2>4. amount \in [St!Accounts -> 0 .. Supply] /\ counted \subseteq St!Accounts
          /\ at \in {"page", "lookup", "answer"}
      BY <2>3 DEF Requests
    <2>5. \A a \in St!Accounts : amount[a] = IF a \in page \cap locked THEN tokens[a]
                                             ELSE call.amount[a]
      OBVIOUS
    <2>6. at # "page" => next = call.cursor
      OBVIOUS
    <2> HIDE DEF amount, counted, at
    <2>7. /\ c \in Requests /\ c.at = at /\ c.total = call.total /\ c.cursor = next
          /\ c.counted = counted /\ c.amount = amount
      BY <2>2, <2>3, <2>4 DEF Requests
    <2> HIDE DEF c
    <2>8. Counting
      BY <1>1 DEF StatsInv
    <2>9. counted = call.counted \cup (page \cap locked) /\ call.counted \subseteq St!Accounts
      BY <2>3 DEF counted, Requests
    <2>10. Counting'
      <3>1. ASSUME NEW a \in steady
            PROVE  (at = "page" /\ a > next) \/ (a \in counted /\ amount[a] = tokens[a])
        <4>1. a \in locked /\ a \in held /\ a \in St!Accounts /\ a \in Nat
          BY StatsConstants DEF StatsInv
        <4>2. next \in Nat /\ call.cursor \in Nat
          <5>1. call.cursor \in St!Accounts \cup {0}
            BY <2>3 DEF Requests
          <5>2. \A n \in St!Accounts \cup {0} : n \in Nat
            BY StatsConstants
          <5> QED  BY <2>2, <5>1, <5>2, Zenon
        <4>3. a > call.cursor \/ (a \in call.counted /\ call.amount[a] = tokens[a])
          BY <2>8 DEF Counting
        <4>4. CASE a \in page
          BY <2>5, <2>9, <4>1, <4>4
        <4>5. CASE a \notin page
          <5>1. CASE a > call.cursor
            <6>1. a > next /\ next # call.cursor
              BY <2>2, <4>1, <4>2, <4>5, <5>1
            <6> QED  BY <2>4, <2>6, <6>1
          <5>2. CASE a \in call.counted /\ call.amount[a] = tokens[a]
            BY <2>5, <2>9, <4>1, <4>5, <5>2
          <5> QED  BY <4>3, <5>1, <5>2
        <4> QED  BY <4>4, <4>5
      <3>2. moved \/ \A a \in counted : amount[a] = tokens[a]
        BY <2>5, <2>8, <2>9, <2>3 DEF Counting
      <3>3. counted \subseteq ever
        BY <2>8, <2>9 DEF Counting
      <3> QED  BY <1>1, <2>1, <2>7, <2>8, <3>1, <3>2, <3>3 DEF Counting
    <2>11. \A S : Sum(tokens', S) = Sum(tokens, S)
      BY <1>1
    <2> QED  BY <1>1, <2>1, <2>4, <2>7, <2>10, <2>11 DEF StatsInv, St!Accounts
  <1> QED  BY <1>2, <1>3

\* Every step of the ledger and of a request keeps what is counted.
LEMMA StatsNext == ASSUME StatsInv, [St!Next]_(St!vars) PROVE StatsInv'
  <1>1. CASE \E a \in St!Accounts : \/ \E lock \in BOOLEAN : St!Hold(a, lock)
                                    \/ St!Unlock(a) \/ St!Close(a)
                                    \/ \E b \in St!Accounts : St!Move(a, b)
    <2>1. ASSUME NEW a \in St!Accounts, NEW b \in St!Accounts, St!Move(a, b) PROVE StatsInv'
      <3>1. a # b /\ tokens[a] > 0
        BY <2>1 DEF St!Move
      <3> QED  BY <2>1, StatsMove
    <2> QED  BY <1>1, <2>1, StatsHold, StatsUnlock, StatsClose
  <1>2. CASE \E e \in Endpoints : St!Ask(e) \/ St!Expire(e)
    <2>1. ASSUME NEW e \in Endpoints, St!Ask(e) PROVE StatsInv'
      <3> DEFINE c == [St!Idle EXCEPT !.at = "total", !.of = e]
      <3>1. call' = c /\ UNCHANGED <<tokens, held, locked>> /\ UNCHANGED <<steady, ever, moved, cached>>
        BY <2>1 DEF St!Ask, St!Ledger, St!Ghosts
      <3>2. c \in Requests /\ c.at = "total" /\ c.counted = {} /\ c.cursor = 0
        BY IdleIsRequest DEF Requests, St!Idle
      <3> HIDE DEF c
      <3>3. \A S : Sum(tokens', S) = Sum(tokens, S)
        BY <3>1
      <3> QED  BY <3>1, <3>2, <3>3 DEF StatsInv, St!Accounts
    <2>2. ASSUME NEW e \in Endpoints, St!Expire(e) PROVE StatsInv'
      <3>1. cached' \subseteq Endpoints /\ UNCHANGED <<tokens, held, locked, call>>
            /\ UNCHANGED <<steady, ever, moved>>
        BY <2>2 DEF St!Expire, St!Ledger, St!Ghosts, StatsInv
      <3>2. Counting' = Counting
        BY <3>1 DEF Counting
      <3>3. \A S : Sum(tokens', S) = Sum(tokens, S)
        BY <3>1
      <3> QED  BY <3>1, <3>2, <3>3 DEF StatsInv, St!Accounts
    <2> QED  BY <1>2, <2>1, <2>2
  <1>3. CASE St!ReadTotal \/ St!ReadPage
    BY <1>3, StatsReadTotal, StatsReadPage
  <1>4. CASE St!LookUp
    <2> DEFINE c == [call EXCEPT !.at = "answer"]
    <2>1. /\ call.at = "lookup" /\ (call' = c \/ call' = St!Idle)
          /\ UNCHANGED <<tokens, held, locked>> /\ UNCHANGED <<steady, ever, moved>>
          /\ UNCHANGED cached
      BY <1>4 DEF St!LookUp, St!Is, St!Ledger, St!Ghosts
    <2>2. CASE call' = St!Idle
      BY <2>1, <2>2, IdleKeeps DEF StatsInv
    <2>3. CASE call' = c
      <3>1. c \in Requests /\ c.at = "answer" /\ c.counted = call.counted
            /\ c.amount = call.amount /\ c.total = call.total
        BY DEF StatsInv, Requests
      <3> HIDE DEF c
      <3>2. Counting'
        BY <2>1, <2>3, <3>1 DEF StatsInv, Counting
      <3>3. \A S : Sum(tokens', S) = Sum(tokens, S)
        BY <2>1
      <3> QED  BY <2>1, <2>3, <3>1, <3>2, <3>3 DEF StatsInv, St!Accounts
    <2> QED  BY <2>1, <2>2, <2>3
  <1>5. CASE St!Answer
    <2>1. call.of \in Endpoints
      BY DEF StatsInv, Requests
    <2>2. cached' \subseteq Endpoints
      BY <1>5, <2>1 DEF St!Answer, StatsInv
    <2> QED  BY <1>5, <2>2, IdleKeeps DEF St!Answer, St!Ledger, St!Ghosts
  <1>6. CASE St!Fails
    BY <1>6, IdleKeeps DEF St!Fails, St!Ledger, St!Ghosts, StatsInv
  <1>7. CASE UNCHANGED St!vars
    <2>1. /\ UNCHANGED <<tokens, held, locked, call>> /\ UNCHANGED <<steady, ever, moved, cached>>
      BY <1>7 DEF St!vars
    <2>2. Counting' = Counting
      BY <2>1 DEF Counting
    <2>3. \A S : Sum(tokens', S) = Sum(tokens, S)
      BY <2>1
    <2> QED  BY <2>1, <2>2, <2>3 DEF StatsInv, St!Accounts
  <1> QED  BY <1>1, <1>2, <1>3, <1>4, <1>5, <1>6, <1>7 DEF St!Next

\* What the invariant has of an answer adds up.
LEMMA StatsAdd == StatsInv => St!TypeOK /\ St!StatsAddUp
  <1> SUFFICES ASSUME StatsInv PROVE St!TypeOK /\ St!StatsAddUp
    OBVIOUS
  <1>1. St!TypeOK
    <2>1. St!Sum(tokens, held) = Supply
      BY HeldIsAll, StatsSum
    <2> QED  BY <2>1 DEF StatsInv, Requests, St!TypeOK
  <1>2. St!StatsAddUp
    <2> SUFFICES ASSUME call.at = "answer" PROVE St!StatsAddUp
      BY DEF St!StatsAddUp, St!Is
    <2>1. Counting
      BY DEF StatsInv
    <2>2. moved \/ St!Sum(call.amount, call.counted) <= call.total
      <3> SUFFICES ASSUME ~ moved PROVE St!Sum(call.amount, call.counted) <= call.total
        OBVIOUS
      <3>1. call.counted \in SUBSET St!Accounts
        BY DEF StatsInv, Requests
      <3>2. /\ \A a \in St!Accounts : tokens[a] \in Int
            /\ \A a \in call.counted : call.amount[a] = tokens[a]
        BY <2>1, StatsConstants DEF StatsInv, Counting
      <3>3. /\ IsFiniteSet(call.counted) /\ call.counted \in SUBSET call.counted
            /\ \A a \in call.counted : tokens[a] \in Int /\ call.amount[a] = tokens[a]
        BY <3>1, <3>2, StatsConstants, FS_Subset
      <3>4. Sum(call.amount, call.counted) = Sum(tokens, call.counted)
        BY <3>3, SumIsSame
      <3>5. Sum(tokens, call.counted) <= Supply
        <4>1. Sum(tokens, call.counted) \in 0 .. Supply
          BY <3>1, HeldIsAll
        <4> QED  BY <4>1
      <3> QED  BY <2>1, <3>4, <3>5, StatsSum DEF Counting
    <2> QED  BY <2>1, <2>2 DEF Counting, St!StatsAddUp, St!Is
  <1> QED  BY <1>1, <1>2

\* The behaviours of Clients are behaviours of Stats.
LEMMA StatsSteps == Spec => St!Spec
  <1>1. Init => St!Init
    BY DEF Init
  <1>2. [Next]_vars => [St!Next]_(St!vars)
    BY DEF Next, vars, DropletsRuns, CirclesRuns, FilesRuns, TreeRuns, SyncthingRuns,
       GatewayRuns, LabelsRuns, VestingRuns, StatsRuns, statsVars, St!vars
  <1> QED  BY <1>1, <1>2, PTL DEF Spec, St!Spec

\* The statistics stay typed and add up.
LEMMA StatsKept == Spec => [](St!TypeOK /\ St!StatsAddUp)
  <1>1. StatsInv /\ [St!Next]_(St!vars) => StatsInv'
    BY StatsNext
  <1> QED  BY <1>1, StatsInit, StatsAdd, StatsSteps, PTL DEF St!Spec

-----------------------------------------------------------------------------
(* A name is the name of one droplet in any case of its letters, unless    *)
(* two deploys of it overlapped, and delete_all destroys none that it      *)
(* spares (clients/digitalocean/digitalocean.py).                          *)
THEOREM DropletsNamedOnce == Spec => []NamedOnce
  <1>1. Dr!NamedOnce => NamedOnce
    BY DEF NamedOnce
  <1> QED  BY <1>1, NamesKept, PTL

(* What was written to a story or an issue is somewhere however it is      *)
(* moved and whatever request fails, and the files of an export that       *)
(* nothing disturbed can be imported whole (clients/taiga/taiga.py).       *)
THEOREM CirclesKeep == Spec => []CirclesKept
  <1>1. Ci!PartsKept /\ Fi!ExportIsWhole => CirclesKept
    BY DEF CirclesKept
  <1> QED  BY <1>1, MovesKept, FilesKept, PTL

(* A call of labelsSet that nobody disturbs leaves the labels it was asked *)
(* for, and none takes a label that every call asks for from the issues    *)
(* (clients/github/repo.py).                                               *)
THEOREM LabelsSettle == Spec => []LabelsAreSet
  <1>1. La!LabelsAreSet => LabelsAreSet
    BY DEF LabelsAreSet
  <1> QED  BY <1>1, LabelsKept, PTL

(* What is taken for a vesting account is safe as one, whatever was done to *)
(* the account (clients/stellar), and what the statistics count as locked   *)
(* was locked, however the ledger changes between two pages                 *)
(* (packages/stellar_stats), for any signers, transactions and accounts.    *)
THEOREM LedgerIsReadRight == Spec => []LedgerReadRight
  <1>1. Ve!VestingIsSafe /\ St!StatsAddUp => LedgerReadRight
    BY DEF LedgerReadRight
  <1> QED  BY <1>1, VestingKept, StatsKept, PTL

(* Every variable of the component that runs keeps its type, for any        *)
(* callers, names and accounts.                                             *)
THEOREM ClientsTyped == Spec => []TypeOK
  <1>1. Init => which \in Parts
    BY DEF Init
  <1>2. which \in Parts /\ [Next]_vars => (which \in Parts)'
    BY DEF Next, vars, DropletsRuns, CirclesRuns, FilesRuns, TreeRuns, SyncthingRuns,
       GatewayRuns, LabelsRuns, VestingRuns, StatsRuns
  <1>3. Spec => [](which \in Parts)
    BY <1>1, <1>2, PTL DEF Spec
  <1>4. GatewayInv => Ga!TypeOK
    BY DEF GatewayInv
  <1>5. ASSUME which \in Parts, Dr!TypeOK, Ci!TypeOK, Fi!TypeOK, Tr!TypeOK, Sy!TypeOK,
               Ga!TypeOK, La!TypeOK, Ve!TypeOK, St!TypeOK
        PROVE  TypeOK
    BY <1>5 DEF TypeOK
  <1> QED
    BY <1>3, <1>4, <1>5, DropletsTyped, CirclesTyped, FilesTyped, TreeKept, SyncthingKept,
       GatewayKept, LabelsTyped, VestingKept, StatsKept, PTL
=============================================================================
