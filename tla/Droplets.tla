------------------------------ MODULE Droplets ------------------------------
(***************************************************************************)
(* The droplets and projects of a DigitalOcean account                     *)
(* (jumpscale/clients/digitalocean/digitalocean.py, project.py).  Every    *)
(* call of the client is a sequence of requests to the account, with the   *)
(* requests of other calls in between; a request may fail, which ends the  *)
(* call where it stands.  The account lists droplets in an order of its    *)
(* own, so that the first of some may be any of them.                      *)
(***************************************************************************)
EXTENDS Naturals

CONSTANTS Callers,
          Names,    \* names of droplets
          Lower,    \* [Names -> Names], the name in lower case
          Spared,   \* names that delete_all leaves alone: "TF-..." and ignored
          Projects, \* projects that may be made besides the default one
          Default,  \* the default project
          MaxDroplets \* bound: droplets made

VARIABLES droplets, \* of the account
          made,     \* number of droplets made
          projects, \* of the account
          sshkey,   \* the key of the client is on the account
          deploys,  \* the call each caller is in
          overlaps, \* ghost: lower-case names that two deploys worked on at once
          doomed    \* ghost: droplets that a delete_all has destroyed

vars == <<droplets, made, projects, sshkey, deploys, overlaps, doomed>>

Idle == [at |-> "idle", name |-> "", project |-> Default, delete |-> FALSE, todo |-> {}]
Droplet == [id : 1 .. MaxDroplets, name : Names, project : Projects \cup {Default}]

DropletsAssumption ==
    /\ Lower \in [Names -> Names] /\ Spared \subseteq Names
    /\ Default \notin Projects /\ "" \notin Names
    /\ MaxDroplets \in Nat

TypeOK ==
    /\ droplets \subseteq Droplet /\ made \in 0 .. MaxDroplets
    /\ projects \subseteq Projects /\ sshkey \in BOOLEAN
    /\ \A c \in Callers : deploys[c].todo \subseteq 1 .. made
    /\ overlaps \subseteq Names /\ doomed \subseteq Droplet

Init ==
    /\ droplets = {} /\ made = 0
    /\ projects = {} /\ sshkey = FALSE
    /\ deploys = [c \in Callers |-> Idle]
    /\ overlaps = {} /\ doomed = {}

(* check_droplet_exist_remote and get_droplet_exist_remote compare names   *)
(* without their case, and take the first of those listed.                 *)
\* Mutant: the names are compared as they are.
Namesakes_Exact(name) == {d \in droplets : d.name = name}
Namesakes(name) == {d \in droplets : Lower[d.name] = Lower[name]}

Goes(c, at) == deploys' = [deploys EXCEPT ![c].at = at]
Ends(c) == deploys' = [deploys EXCEPT ![c] = Idle]
Asked(c, r) == deploys' = [deploys EXCEPT ![c] = r]
At(c, at) == deploys[c].at = at
Of(id) == {d \in droplets : d.id = id}

(* Calls that have looked for a droplet to replace, or are about to.       *)
Deploying(c) == deploys[c].at \in {"check", "get", "destroy", "look up", "create"}

-----------------------------------------------------------------------------
(* Droplet.deploy: the project asked for must exist.                       *)
Deploy(c) ==
    /\ At(c, "idle")
    /\ \E name \in Names, p \in projects \cup {Default}, delete \in BOOLEAN :
         Asked(c, [at |-> "key", name |-> name, project |-> p,
                   delete |-> delete, todo |-> {}])
    /\ UNCHANGED <<droplets, made, projects, sshkey, overlaps, doomed>>

(* The default key is looked for and made when it is not there; the        *)
(* account refuses a key it has, and the deploy fails.                     *)
FindKey(c) ==
    /\ At(c, "key")
    /\ Goes(c, IF sshkey THEN "check" ELSE "make key")
    /\ UNCHANGED <<droplets, made, projects, sshkey, overlaps, doomed>>

MakeKey(c) ==
    /\ At(c, "make key")
    /\ sshkey' = TRUE
    /\ IF sshkey THEN Ends(c) ELSE Goes(c, "check")
    /\ UNCHANGED <<droplets, made, projects, overlaps, doomed>>

(* From here on the deploy relies on what it finds of the name.            *)
Check(c) ==
    /\ At(c, "check")
    /\ Goes(c, IF Namesakes(deploys[c].name) = {} THEN "look up" ELSE "get")
    /\ overlaps' = overlaps \cup
         {Lower[deploys[d].name] : d \in
            {d \in Callers \ {c} : Deploying(d)
                /\ Lower[deploys[d].name] = Lower[deploys[c].name]}}
    /\ UNCHANGED <<droplets, made, projects, sshkey, doomed>>

(* The droplet is read once more; with delete=False it is the result.      *)
Get(c) ==
    /\ At(c, "get")
    /\ LET found == Namesakes(deploys[c].name)
       IN  IF found = {} \/ ~deploys[c].delete
           THEN Ends(c)
           ELSE \E d \in found :
                  deploys' = [deploys EXCEPT ![c].at = "destroy", ![c].todo = {d.id}]
    /\ UNCHANGED <<droplets, made, projects, sshkey, overlaps, doomed>>

(* Destroying a droplet that is gone fails.                                *)
Destroy(c) ==
    /\ At(c, "destroy")
    /\ \E id \in deploys[c].todo :
         IF Of(id) # {}
         THEN droplets' = droplets \ Of(id) /\ Goes(c, "look up")
         ELSE Ends(c) /\ UNCHANGED droplets
    /\ UNCHANGED <<made, projects, sshkey, overlaps, doomed>>

(* The key, the region and the image are looked up by name only now: one   *)
(* that is not there ends the call with the old droplet destroyed.         *)
LookUp(c) ==
    /\ At(c, "look up")
    /\ Goes(c, "create") \/ Ends(c)
    /\ UNCHANGED <<droplets, made, projects, sshkey, overlaps, doomed>>

(* A new droplet is in the default project until it is assigned.           *)
Create(c) ==
    /\ At(c, "create") /\ made < MaxDroplets
    /\ made' = made + 1
    /\ droplets' = droplets \cup {[id |-> made + 1, name |-> deploys[c].name,
                                   project |-> Default]}
    /\ IF deploys[c].project = Default THEN Ends(c)
       ELSE deploys' = [deploys EXCEPT ![c].at = "assign", ![c].todo = {made + 1}]
    /\ UNCHANGED <<projects, sshkey, overlaps, doomed>>

Assign(c) ==
    /\ At(c, "assign")
    /\ droplets' = {IF d.id \in deploys[c].todo /\ deploys[c].project \in projects
                    THEN [d EXCEPT !.project = deploys[c].project] ELSE d : d \in droplets}
    /\ Ends(c)
    /\ UNCHANGED <<made, projects, sshkey, overlaps, doomed>>

(* delete_remote destroys the first droplet of the name.                   *)
DeleteRemote(c) ==
    /\ At(c, "idle")
    /\ \E name \in Names : \E d \in Namesakes(name) :
         deploys' = [deploys EXCEPT ![c] =
                       [Idle EXCEPT !.at = "delete", !.name = name, !.todo = {d.id}]]
    /\ UNCHANGED <<droplets, made, projects, sshkey, overlaps, doomed>>

(* delete_all lists the droplets, of a project or all, without the spared  *)
(* ones, asks, and destroys them one by one.                               *)
\* Mutant: the droplets of a project are all deleted.
Doomed_Project(p) == {d \in droplets : d.name \notin Spared \/ d.project = p}
Doomed(p) == {d \in droplets : d.name \notin Spared /\ p \in {d.project, "all"}}

DeleteAll(c) ==
    /\ At(c, "idle")
    /\ \E p \in projects \cup {Default, "all"} :
         /\ Doomed(p) # {}
         /\ deploys' = [deploys EXCEPT ![c] =
                          [Idle EXCEPT !.at = "delete all", !.todo = {d.id : d \in Doomed(p)}]]
    /\ UNCHANGED <<droplets, made, projects, sshkey, overlaps, doomed>>

DestroyNext(c) ==
    /\ deploys[c].at \in {"delete", "delete all"}
    /\ \E id \in deploys[c].todo :
         /\ droplets' = droplets \ Of(id)
         /\ doomed' = IF At(c, "delete all") THEN doomed \cup Of(id) ELSE doomed
         /\ IF Of(id) = {} \/ deploys[c].todo = {id} THEN Ends(c)
            ELSE deploys' = [deploys EXCEPT ![c].todo = @ \ {id}]
    /\ UNCHANGED <<made, projects, sshkey, overlaps>>

(* A request fails.                                                        *)
Fails(c) ==
    /\ deploys[c] # Idle
    /\ Ends(c)
    /\ UNCHANGED <<droplets, made, projects, sshkey, overlaps, doomed>>

(* Project.deploy refuses a name that is there, looked for and made in two *)
(* requests: the account refuses the second.  A project is deleted when    *)
(* nothing is in it.                                                       *)
DeployProject(p) ==
    /\ p \notin projects
    /\ projects' = projects \cup {p}
    /\ UNCHANGED <<droplets, made, sshkey, deploys, overlaps, doomed>>

DeleteProject(p) ==
    /\ p \in projects
    /\ \A d \in droplets : d.project # p
    /\ projects' = projects \ {p}
    /\ UNCHANGED <<droplets, made, sshkey, deploys, overlaps, doomed>>

Next ==
    \/ \E c \in Callers :
         \/ Deploy(c) \/ FindKey(c) \/ MakeKey(c) \/ Check(c) \/ Get(c)
         \/ Destroy(c) \/ LookUp(c) \/ Create(c) \/ Assign(c)
         \/ DeleteRemote(c) \/ DeleteAll(c) \/ DestroyNext(c) \/ Fails(c)
    \/ \E p \in Projects : DeployProject(p) \/ DeleteProject(p)

Spec == Init /\ [][Next]_vars

-----------------------------------------------------------------------------
(* A name is the name of one droplet, in any case of its letters, whatever *)
(* is deployed over what and whichever request fails, unless two deploys   *)
(* of it overlapped; and delete_all has destroyed none that it spares.     *)
NamedOnce ==
    /\ \A d, e \in droplets :
         d.id # e.id /\ Lower[d.name] = Lower[e.name] => Lower[d.name] \in overlaps
    /\ \A d \in doomed : d.name \notin Spared
=============================================================================
