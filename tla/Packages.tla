------------------------------ MODULE Packages ------------------------------
(***************************************************************************)
(* The threebot server and its package manager                             *)
(* (jumpscale/servers/threebot/threebot.py): adding, deleting and          *)
(* reloading packages, what that registers with the gedis server, the      *)
(* chatbot, the service manager, the rack and nginx, the list of actors    *)
(* the http gateway copies from gedis, and the start and stop of it all.   *)
(*                                                                         *)
(* Every call runs in a greenlet of its own and gives way to others in     *)
(* hooks, in processes it waits for and in calls to gedis: an action here  *)
(* is what happens between two such points.                                *)
(***************************************************************************)
EXTENDS Naturals

CONSTANTS Pkgs,       \* names of packages
          Chatflows,  \* the default package whose actor holds the chats
          Serviced,   \* packages that have services
          Prefixed,   \* <<p, q>>: the name of q starts with p's name and "_"
          Callers,    \* greenlets that call the package manager
          Starter,    \* the greenlet of ThreebotServer.start
          MaxCalls    \* bound: calls of the package manager

NamesAssumption ==
    /\ Chatflows \in Pkgs
    /\ Serviced \subseteq Pkgs
    /\ Prefixed \subseteq {pq \in Pkgs \X Pkgs : pq[1] # pq[2]}
    /\ Starter \notin Callers
    /\ MaxCalls \in Nat

VARIABLES listed,  \* PackageManager.packages, which is saved
          phase,   \* of the server: down, starting, up
          reg,     \* where each part of a package is registered
          conf,    \* packages with locations in nginx' files
          live,    \* packages with locations in the running nginx
          loaded,  \* the client's _loaded_actors
          alias,   \* the client's actors wraps that very dictionary ...
          seen,    \* ... or an older one, which had these actors
          ops,     \* what each greenlet is doing
          spoiled, \* ghost: packages that something went wrong for
          calls    \* bound: calls made so far

vars == <<listed, phase, reg, conf, live, loaded, alias, seen, ops, spoiled,
          calls>>
client == <<loaded, alias, seen>>
nginx == <<conf, live>>

Threads == Callers \cup {Starter}

(* What install registers, in its order: bottle servers and apps, actors,  *)
(* chats and services; and the locations that NginxPackageConfig makes.    *)
Registries == {"bottle", "actors", "chats", "services", "pages"}
Stages == {{}, {"bottle"}, {"bottle", "actors"}, {"bottle", "actors", "chats"}}
Registered == {"bottle", "actors", "chats", "services"}
Parts(p) == IF p \in Serviced THEN Registered ELSE Registered \ {"services"}

Nothing == [r \in Registries |-> {}]
Idle == [do |-> "none", pkg |-> Chatflows, at |-> "idle",
         todo |-> {}, names |-> {}, alone |-> TRUE]

Works == {"none", "add", "delete", "reload", "boot", "boot_rest"}
Places == {"idle", "hook", "register", "serve", "list", "info", "nginx",
           "save", "stop", "unregister", "uninstall", "next"}

TypeOK ==
    /\ Chatflows \in listed /\ listed \subseteq Pkgs
    /\ phase \in {"down", "starting", "up"}
    /\ reg \in [Registries -> SUBSET Pkgs]
    /\ conf \subseteq Pkgs /\ live \subseteq Pkgs
    /\ loaded \subseteq Pkgs /\ alias \in BOOLEAN /\ seen \subseteq Pkgs
    /\ ops \in [Threads -> [do : Works, pkg : Pkgs, at : Places,
                            todo : SUBSET Pkgs, names : SUBSET Pkgs,
                            alone : BOOLEAN]]
    /\ spoiled \subseteq Pkgs
    /\ calls \in 0 .. MaxCalls

(* What GedisClient.actors offers the gateway.                             *)
Shown == IF alias THEN loaded ELSE seen

(* What gedis and the http gateway answer a call of p's actor.             *)
GedisAnswer(p) == IF p \in reg["actors"] THEN "result" ELSE "not found"
Answer(p) == IF p \in Shown THEN GedisAnswer(p) ELSE "bad request"

At(c, at) == ops[c].at = at
Goto(c, at) == ops' = [ops EXCEPT ![c].at = at]
On(p) == {c \in Threads : ops[c].at \notin {"idle", "next"} /\ ops[c].pkg = p}
Clashing(p) == {q \in Pkgs : q = p \/ <<p, q>> \in Prefixed}

-----------------------------------------------------------------------------
(* Ghost: an operation on a package is alone when no other one on the same *)
(* package overlaps it and the server is not starting meanwhile; a package *)
(* is spoiled from an operation on it that failed, overlapped or ran       *)
(* before the server had started, or from losing a part to another's       *)
(* operation, until one that is alone succeeds.                            *)
Entered(c, entry) ==
    LET p == entry.pkg
        others == On(p) \ {c}
        free == others = {} /\ (phase = "up" \/ c = Starter)
    IN /\ ops' = [d \in Threads |->
                    IF d = c THEN [entry EXCEPT !.alone = free]
                    ELSE IF d \in others THEN [ops[d] EXCEPT !.alone = FALSE]
                    ELSE ops[d]]
       /\ spoiled' = IF free THEN spoiled ELSE spoiled \cup {p}

Disturb(c, at, lost) ==
    /\ ops' = [d \in Threads |->
                 IF d = c THEN [ops[d] EXCEPT !.at = at]
                 ELSE IF At(d, "idle") THEN ops[d]
                 ELSE [ops[d] EXCEPT !.alone = @ /\ ops[d].pkg \notin lost]]
    /\ spoiled' = spoiled \cup lost

Cured(c) == IF ops[c].alone THEN spoiled \ {ops[c].pkg} ELSE spoiled

(* A call raises half way: what it did stays.                              *)
Raises(c, lost) ==
    /\ c \in Callers
    /\ ops' = [d \in Threads |->
                 IF d = c THEN Idle
                 ELSE [ops[d] EXCEPT !.alone = @ /\ ops[d].pkg \notin lost]]
    /\ spoiled' = spoiled \cup {ops[c].pkg} \cup lost

-----------------------------------------------------------------------------
Init ==
    /\ listed = {Chatflows}
    /\ phase = "down"
    /\ reg = Nothing
    /\ conf = {} /\ live = {}
    /\ loaded = {} /\ alias = TRUE /\ seen = {}
    /\ ops = [c \in Threads |-> Idle]
    /\ spoiled = {}
    /\ calls = 0

(* The admin package's actors take calls once the defaults are registered. *)
Called(c) == /\ At(c, "idle") /\ Chatflows \in reg["actors"]
             /\ calls < MaxCalls /\ calls' = calls + 1

(* PackageManager.add: a path or a repository that was cloned, not tested  *)
(* against the packages there are.                                         *)
Add(c, p) ==
    /\ Called(c)
    /\ Entered(c, [Idle EXCEPT !.do = "add", !.pkg = p, !.at = "hook"])
    /\ UNCHANGED <<listed, phase, reg, conf, live, client>>

(* package.install(), then install if the server is started by now.        *)
InstallHook(c) ==
    /\ At(c, "hook")
    /\ Goto(c, IF phase = "up" THEN "register" ELSE "save")
    /\ UNCHANGED <<listed, phase, reg, conf, live, client, spoiled>>

InstallHookFails(c) ==
    /\ At(c, "hook")
    /\ ops' = [ops EXCEPT ![c] = Idle]
    /\ UNCHANGED <<listed, phase, reg, conf, live, client, spoiled>>

(* A new actor of the chatflows package knows no chats.                    *)
Register(p, parts) ==
    reg' = [r \in Registries |->
              LET kept == IF r = "chats" /\ p = Chatflows /\ "actors" \in parts
                          THEN {} ELSE reg[r]
              IN IF r \in parts THEN kept \cup {p} ELSE kept]
Silenced(p, parts) ==
    IF p = Chatflows /\ "actors" \in parts THEN reg["chats"] \ {p} ELSE {}

InstallRegisters(c) ==
    /\ At(c, "register")
    /\ LET p == ops[c].pkg IN
       Register(p, Parts(p)) /\ Disturb(c, "serve", Silenced(p, Parts(p)))
    /\ UNCHANGED <<listed, phase, conf, live, client>>

InstallRegistersPart(c) ==
    /\ At(c, "register")
    /\ \E parts \in Stages : /\ Register(ops[c].pkg, parts)
                             /\ Raises(c, Silenced(ops[c].pkg, parts))
    /\ UNCHANGED <<listed, phase, conf, live, client>>

(* nginx_config.apply: the website writes every location it holds, so what *)
(* a deleted package left in it is written again.                          *)
WebsiteWith(p) == reg["pages"] \cup {p}
Apply(p) == /\ reg' = [reg EXCEPT !["pages"] = WebsiteWith(p)]
            /\ conf' = WebsiteWith(p)

(* After it rack.start, the start hook, and the first line of the client's *)
(* _load_actors, which puts an empty dictionary in place.                  *)
\* Mutant: the gateway's client is not reloaded.
InstallServes_Untold(c) ==
    /\ At(c, "serve")
    /\ Apply(ops[c].pkg)
    /\ Goto(c, "nginx")
    /\ UNCHANGED <<listed, phase, live, client, spoiled>>

InstallServes(c) ==
    /\ At(c, "serve")
    /\ Apply(ops[c].pkg)
    /\ seen' = Shown /\ alias' = FALSE /\ loaded' = {}
    /\ Goto(c, "list")
    /\ UNCHANGED <<listed, phase, live, spoiled>>

(* Making the certificate or the start hook fails.                         *)
InstallServesNot(c) ==
    /\ At(c, "serve")
    /\ Apply(ops[c].pkg)
    /\ Raises(c, {})
    /\ UNCHANGED <<listed, phase, live, client>>

ListActors(c) ==
    /\ At(c, "list")
    /\ ops' = [ops EXCEPT ![c].at = "info", ![c].names = reg["actors"]]
    /\ UNCHANGED <<listed, phase, reg, conf, live, client, spoiled>>

(* _get_actor_info, one call for each name; the proxy goes to what is the  *)
(* client's dictionary at that time.                                       *)
ActorInfo(c) ==
    /\ At(c, "info")
    /\ \E q \in ops[c].names \cap reg["actors"] :
         /\ loaded' = loaded \cup {q}
         /\ ops' = [ops EXCEPT ![c].names = @ \ {q}]
    /\ UNCHANGED <<listed, phase, reg, conf, live, alias, seen, spoiled>>

(* The actor went between the two calls: gedis knows no such actor.  Other *)
(* reloads go on to fill the dictionary this one has put in place, each    *)
(* with the names that it has still to ask for; without them the gateway   *)
(* goes by what it had.                                                    *)
Reloads(c) == ops[c].at \in {"list", "info"}
Comes(p, c) == At(c, "list") \/ (At(c, "info") /\ p \in ops[c].names)
LeftOut(c) ==
    LET others == {d \in Threads \ {c} : Reloads(d)}
        there == IF others = {} THEN Shown ELSE loaded
    IN {p \in reg["actors"] \ there : \A d \in others : ~Comes(p, d)}
ActorInfoFails(c) ==
    /\ At(c, "info")
    /\ ops[c].names \ reg["actors"] # {}
    /\ Raises(c, LeftOut(c))
    /\ UNCHANGED <<listed, phase, reg, conf, live, client>>

ActorsLoaded(c) ==
    /\ At(c, "info") /\ ops[c].names = {}
    /\ alias' = TRUE /\ seen' = {}
    /\ Goto(c, "nginx")
    /\ UNCHANGED <<listed, phase, reg, conf, live, loaded, spoiled>>

ReloadNginx(c) ==
    /\ At(c, "nginx")
    /\ live' = conf
    /\ IF c = Starter
       THEN Goto(c, "next") /\ spoiled' = Cured(c)
       ELSE Goto(c, "save") /\ UNCHANGED spoiled
    /\ UNCHANGED <<listed, phase, reg, conf, client>>

(* self.packages[name] = ..., save.  An add that ran without the server    *)
(* registered nothing.                                                     *)
Save(c) ==
    /\ At(c, "save")
    /\ listed' = IF ops[c].do = "add" THEN listed \cup {ops[c].pkg} ELSE listed
    /\ spoiled' = Cured(c)
    /\ ops' = [ops EXCEPT ![c] = Idle]
    /\ UNCHANGED <<phase, reg, conf, live, client>>

-----------------------------------------------------------------------------
\* Mutant: default packages can be deleted too.
Deletable_Any(p) == p \in listed

Deletable(p) == p # Chatflows /\ p \in listed

(* PackageManager.delete: the servers of the rack whose names start with   *)
(* the package's name go first, those of longer names too.                 *)
Delete(c, p) ==
    /\ Called(c)
    /\ Deletable(p)
    /\ reg' = [reg EXCEPT !["bottle"] = @ \ Clashing(p)]
    /\ LET lost == (reg["bottle"] \cap Clashing(p)) \ {p}
           others == On(p) \ {c}
           free == others = {} /\ phase = "up"
       IN /\ ops' = [d \in Threads |->
                IF d = c THEN [Idle EXCEPT !.do = "delete", !.pkg = p,
                                           !.at = "stop", !.alone = free]
                ELSE IF ops[d].pkg \in lost \cup {p} /\ ~At(d, "idle")
                     THEN [ops[d] EXCEPT !.alone = FALSE]
                     ELSE ops[d]]
          /\ spoiled' = spoiled \cup lost \cup (IF free THEN {} ELSE {p})
    /\ UNCHANGED <<listed, phase, conf, live, client>>

(* PackageManager.reload, of a package that is listed, while started.      *)
Reload(c, p) ==
    /\ Called(c)
    /\ phase = "up" /\ p \in listed
    /\ Entered(c, [Idle EXCEPT !.do = "reload", !.pkg = p, !.at = "stop"])
    /\ UNCHANGED <<listed, phase, reg, conf, live, client>>

Stoppable(p) == p \in Serviced => p \in reg["services"]

\* Mutant: services are found by prefix, as servers and actors are.
StopServices_Prefix(c) ==
    /\ At(c, "stop")
    /\ Stoppable(ops[c].pkg)
    /\ reg' = [reg EXCEPT !["services"] = @ \ Clashing(ops[c].pkg)]
    /\ Goto(c, IF ops[c].do = "reload" THEN "register" ELSE "unregister")
    /\ UNCHANGED <<listed, phase, conf, live, client, spoiled>>

StopServices(c) ==
    /\ At(c, "stop")
    /\ Stoppable(ops[c].pkg)
    /\ reg' = [reg EXCEPT !["services"] = @ \ {ops[c].pkg}]
    /\ Goto(c, IF ops[c].do = "reload" THEN "register" ELSE "unregister")
    /\ UNCHANGED <<listed, phase, conf, live, client, spoiled>>

(* stop_service raises for a service that is not managed.                  *)
StopServicesNot(c) ==
    /\ At(c, "stop")
    /\ ~Stoppable(ops[c].pkg)
    /\ Raises(c, {})
    /\ UNCHANGED <<listed, phase, reg, conf, live, client>>

(* While started: actors by the prefix of their names, chats by the name   *)
(* of the package, and a reload of nginx whose files nobody changed.       *)
\* Mutant: the chats stay loaded.
Unregister_KeepsChats(c) ==
    /\ At(c, "unregister")
    /\ IF phase = "up"
       THEN LET p == ops[c].pkg IN
            /\ reg' = [reg EXCEPT !["actors"] = @ \ Clashing(p)]
            /\ live' = conf
            /\ Disturb(c, "uninstall", (reg["actors"] \cap Clashing(p)) \ {p})
       ELSE Goto(c, "uninstall") /\ UNCHANGED <<reg, live, spoiled>>
    /\ UNCHANGED <<listed, phase, conf, client>>

Unregister(c) ==
    /\ At(c, "unregister")
    /\ IF phase = "up"
       THEN LET p == ops[c].pkg IN
            /\ reg' = [reg EXCEPT !["actors"] = @ \ Clashing(p),
                                  !["chats"] = @ \ {p}]
            /\ live' = conf
            /\ Disturb(c, "uninstall", (reg["actors"] \cap Clashing(p)) \ {p})
       ELSE Goto(c, "uninstall") /\ UNCHANGED <<reg, live, spoiled>>
    /\ UNCHANGED <<listed, phase, conf, client>>

Uninstalled(c) ==
    /\ At(c, "uninstall")
    /\ ops[c].pkg \in listed
    /\ listed' = listed \ {ops[c].pkg}
    /\ spoiled' = Cured(c)
    /\ ops' = [ops EXCEPT ![c] = Idle]
    /\ UNCHANGED <<phase, reg, conf, live, client>>

(* The hook fails, or another call has taken the package off the list.     *)
UninstallFails(c) ==
    /\ At(c, "uninstall")
    /\ Raises(c, {})
    /\ UNCHANGED <<listed, phase, reg, conf, live, client>>

-----------------------------------------------------------------------------
(* ThreebotServer.start in a new process: nginx' files are written afresh  *)
(* and the default packages are installed.                                 *)
CleanNginx == conf' = {}

Start ==
    /\ phase = "down"
    /\ phase' = "starting"
    /\ CleanNginx
    /\ ops' = [ops EXCEPT ![Starter] =
                 [Idle EXCEPT !.do = "boot", !.at = "next", !.todo = {Chatflows}]]
    /\ UNCHANGED <<listed, reg, live, client, spoiled>>

(* The next package to install; one that was deleted since is passed over. *)
StartInstalls ==
    /\ At(Starter, "next")
    /\ \E p \in ops[Starter].todo :
         LET rest == [ops[Starter] EXCEPT !.todo = @ \ {p}, !.pkg = p] IN
         IF p \in listed
         THEN Entered(Starter, [rest EXCEPT !.at = "register"])
         ELSE ops' = [ops EXCEPT ![Starter] = rest] /\ UNCHANGED spoiled
    /\ UNCHANGED <<listed, phase, reg, conf, live, client>>

(* A package whose path has gone is logged and stays on the list.          *)
StartSkips ==
    /\ At(Starter, "next") /\ ops[Starter].do = "boot_rest"
    /\ \E p \in ops[Starter].todo :
         /\ ops' = [ops EXCEPT ![Starter].todo = @ \ {p}]
         /\ spoiled' = spoiled \cup {p}
    /\ UNCHANGED <<listed, phase, reg, conf, live, client>>

(* _install_all goes through the list as it is when it begins.             *)
InstallAll ==
    /\ At(Starter, "next")
    /\ ops[Starter].do = "boot" /\ ops[Starter].todo = {}
    /\ ops' = [ops EXCEPT ![Starter].do = "boot_rest",
                          ![Starter].todo = listed \ {Chatflows}]
    /\ UNCHANGED <<listed, phase, reg, conf, live, client, spoiled>>

Started ==
    /\ At(Starter, "next")
    /\ ops[Starter].do = "boot_rest" /\ ops[Starter].todo = {}
    /\ phase' = "up"
    /\ live' = conf
    /\ ops' = [ops EXCEPT ![Starter] = Idle]
    /\ UNCHANGED <<listed, reg, conf, client, spoiled>>

(* The process ends and with it all that is not on disk.                   *)
Down == /\ phase' = "down"
        /\ reg' = Nothing
        /\ loaded' = {} /\ alias' = TRUE /\ seen' = {}
        /\ ops' = [c \in Threads |-> Idle]
        /\ spoiled' = {}
        /\ UNCHANGED <<listed, conf>>

(* An exception out of install while starting: for a default package start *)
(* calls stop, which stops nginx; for another one it simply leaves.        *)
StartFails ==
    /\ ops[Starter].at \in {"register", "serve", "list", "info"}
    /\ live' = IF ops[Starter].do = "boot" THEN {} ELSE live
    /\ Down

Stop == phase # "down" /\ live' = {} /\ Down

(* threebot stop: what runs is killed, and nginx is stopped if the server  *)
(* was in the background or an earlier one has left nginx behind.          *)
StopCommand == live # {} /\ live' = {} /\ Down

(* Killed: nginx is a process of its own and goes on with what it has.     *)
Kill == phase # "down" /\ UNCHANGED live /\ Down

Install(c) ==
    \/ InstallRegisters(c) \/ InstallRegistersPart(c)
    \/ InstallServes(c) \/ InstallServesNot(c)
    \/ ListActors(c) \/ ActorInfo(c) \/ ActorInfoFails(c) \/ ActorsLoaded(c)
    \/ ReloadNginx(c)

Step(c) ==
    \/ InstallHook(c) \/ InstallHookFails(c)
    \/ Save(c)
    \/ StopServices(c) \/ StopServicesNot(c)
    \/ Unregister(c) \/ Uninstalled(c) \/ UninstallFails(c)

Boot == Start \/ StartInstalls \/ StartSkips \/ InstallAll \/ Started

Next ==
    \/ \E c \in Callers, p \in Pkgs : Add(c, p) \/ Delete(c, p) \/ Reload(c, p)
    \/ /\ \/ \E c \in Threads : Install(c)
          \/ \E c \in Callers : Step(c)
          \/ Boot \/ StartFails \/ Stop \/ StopCommand \/ Kill
       /\ UNCHANGED calls

Spec == Init /\ [][Next]_vars

-----------------------------------------------------------------------------
Settled(p) == phase = "up" /\ p \notin spoiled /\ On(p) = {}
Reloading == \E c \in Threads : Reloads(c)

(* A package that is on the list, and that nothing went wrong for, is      *)
(* there with all its parts: whatever was added, deleted and reloaded      *)
(* beside it, and after every restart.  install, delete and _install_all   *)
(* go through six registries, and nothing else keeps them together.        *)
ListedIsThere ==
    \A p \in listed : Settled(p) =>
        /\ \A r \in Parts(p) \cup {"pages"} : p \in reg[r]
        /\ p \in live

(* The http gateway answers for it: its own copy of the list of actors,    *)
(* refilled name by name by any number of installs at once, has not lost   *)
(* an actor that gedis has.                                                *)
ListedAnswers ==
    \A p \in listed : Settled(p) /\ ~Reloading => Answer(p) = "result"

(* A package that is not on the list, and that nothing went wrong for, has *)
(* no bottle server, actor, chat or service left, and no answer.           *)
UnlistedIsGone ==
    \A p \in Pkgs \ listed : Settled(p) =>
        /\ \A r \in Registered : p \notin reg[r]
        /\ Answer(p) # "result"
=============================================================================
