-------------------------------- MODULE Login --------------------------------
(***************************************************************************)
(* Logging in to a threebot (jumpscale/packages/auth/bottle/auth.py and    *)
(* its templates).  The tabs of a browser share one session.  The page     *)
(* asked for goes through the session and the links of the login page,     *)
(* quoted and unquoted on its way: an address is a page and the number of  *)
(* times it is quoted.                                                     *)
(***************************************************************************)
EXTENDS Naturals

CONSTANTS Tabs, Pages,
          Home,      \* "/"
          Users,     \* names at ThreeFold Connect
          Nobody,
          MaxStates  \* bound: login attempts

LoginAssumption == Home \notin Pages /\ Nobody \notin Users /\ MaxStates \in Nat

VARIABLES next,   \* next_url of the session
          state,  \* its state, 0 for none
          states, \* number of states drawn
          user,   \* its user, authorized
          owners, \* the admins of the threebot, its owner among them
          tabs    \* what each tab shows

vars == <<next, state, states, user, owners, tabs>>

Plain(p) == [page |-> p, quoted |-> 0]
Quote(u) == [u EXCEPT !.quoted = @ + 1]
Unquote(u) == [u EXCEPT !.quoted = IF @ = 0 THEN 0 ELSE @ - 1]
Address == [page : Pages \cup {Home}, quoted : 0 .. MaxStates + 2]

(* asked is the page a tab asked for; muddled: it asked for none though    *)
(* the session had an old one, or another tab has asked for one since.     *)
Blank == [at |-> "off", address |-> Plain(Home), state |-> 0, asked |-> Home,
          muddled |-> FALSE]

TypeOK ==
    /\ next \in Address /\ state \in 0 .. states /\ states \in 0 .. MaxStates
    /\ user \in Users \cup {Nobody} /\ owners \subseteq Users
    /\ \A t \in Tabs :
         /\ tabs[t].at \in {"off", "login", "provider", "landed", "shown", "error"}
         /\ tabs[t].address \in Address /\ tabs[t].state <= states

Init ==
    /\ next = Plain(Home) /\ state = 0 /\ states = 0 /\ user = Nobody
    /\ owners = {} /\ tabs = [t \in Tabs |-> Blank]

(* What t asks for puts another page in the session of tabs on their way.  *)
Shows(t, r) ==
    tabs' = [u \in Tabs |->
      IF u = t THEN r
      ELSE [tabs[u] EXCEPT !.muddled = @ \/ (tabs[u].at = "provider" /\ next' # next)]]
LoginPage(t, u, p, muddled) ==
    Shows(t, [Blank EXCEPT !.at = "login", !.address = Quote(u), !.asked = p,
                           !.muddled = muddled])

-----------------------------------------------------------------------------
(* A page with login_required.                                             *)
Visit(t, p) ==
    /\ IF user # Nobody
       THEN /\ UNCHANGED next
            /\ Shows(t, [Blank EXCEPT !.at = "shown", !.address = Plain(p), !.asked = p])
       ELSE /\ next' = Plain(p)
            /\ LoginPage(t, next', p, FALSE)
    /\ UNCHANGED <<state, states, user, owners>>

(* The login page itself asks for the next_url of the session, or for the  *)
(* one it is called with.                                                  *)
OpenLogin(t) ==
    /\ UNCHANGED next
    /\ LoginPage(t, next, next.page, next.quoted > 0)
    /\ UNCHANGED <<state, states, user, owners>>

OpenLoginFor(t, p) ==
    /\ UNCHANGED next
    /\ LoginPage(t, Plain(p), p, FALSE)
    /\ UNCHANGED <<state, states, user, owners>>

(* The link of the page comes back unquoted, and is quoted once more; the  *)
(* browser goes on to the provider.                                        *)
\* Mutant: the next_url of the session is kept.
Click_Keeps(t) ==
    /\ tabs[t].at = "login" /\ states < MaxStates
    /\ states' = states + 1 /\ state' = states + 1
    /\ UNCHANGED next
    /\ Shows(t, [tabs[t] EXCEPT !.at = "provider", !.state = states + 1])
    /\ UNCHANGED <<user, owners>>
Click(t) ==
    /\ tabs[t].at = "login" /\ states < MaxStates
    /\ states' = states + 1 /\ state' = states + 1
    /\ next' = Quote(Unquote(tabs[t].address))
    /\ Shows(t, [tabs[t] EXCEPT !.at = "provider", !.state = states + 1])
    /\ UNCHANGED <<user, owners>>

(* 3bot_callback: the state must be the one of the session, what the       *)
(* provider signed must hold, and the email be verified.                   *)
Callback(t, n) ==
    /\ tabs[t].at = "provider" /\ tabs[t].state = state
    /\ user' = n
    /\ UNCHANGED next
    /\ Shows(t, [tabs[t] EXCEPT !.at = "landed", !.address = Unquote(next)])
    /\ UNCHANGED <<state, states, owners>>

CallbackFails(t) ==
    /\ tabs[t].at = "provider"
    /\ UNCHANGED next
    /\ Shows(t, [Blank EXCEPT !.at = "error"])
    /\ UNCHANGED <<state, states, user, owners>>

(* The session is invalidated and the login page asked for a page.         *)
Logout(t) ==
    /\ next' = Plain(Home) /\ state' = 0 /\ user' = Nobody
    /\ LoginPage(t, Plain(Home), Home, FALSE)
    /\ UNCHANGED <<states, owners>>

(* auto_login, when it is configured, makes the owner the user.            *)
AutoLogin(t) ==
    /\ \E n \in owners : user' = n
    /\ UNCHANGED next
    /\ Shows(t, [Blank EXCEPT !.at = "shown"])
    /\ UNCHANGED <<state, states, owners>>

(* A page for admins: whether the user is one is looked up at each call.   *)
IsAdmin == owners = {} \/ user \in owners
VisitAdmin(t, p) ==
    /\ UNCHANGED next
    /\ Shows(t, [Blank EXCEPT !.at = IF IsAdmin THEN "shown" ELSE "error",
                              !.address = Plain(p), !.asked = p])
    /\ UNCHANGED <<state, states, user, owners>>

ChangeOwners ==
    /\ \E A \in SUBSET Users : A # owners /\ owners' = A
    /\ UNCHANGED <<next, state, states, user, tabs>>

Next ==
    \/ \E t \in Tabs :
         \/ OpenLogin(t) \/ Click(t) \/ CallbackFails(t) \/ Logout(t) \/ AutoLogin(t)
         \/ \E p \in Pages : Visit(t, p) \/ OpenLoginFor(t, p) \/ VisitAdmin(t, p)
         \/ \E n \in Users : Callback(t, n)
    \/ ChangeOwners

Spec == Init /\ [][Next]_vars

-----------------------------------------------------------------------------
(* A login ends at the page that was asked for, in an address quoted as it *)
(* was then, after attempts that were given up, failed, or made in other   *)
(* tabs; unless another page was asked for on the way, or the login page   *)
(* was opened again with no page while the session had an old one.         *)
LandsWhereAsked ==
    \A t \in Tabs : tabs[t].at = "landed" =>
        tabs[t].muddled \/ tabs[t].address = Plain(tabs[t].asked)
=============================================================================
