------------------------------- MODULE Server -------------------------------
(***************************************************************************)
(* The parts of a threebot server and of its packages that share no state. *)
(* A behaviour of all of them is a shuffle of theirs, so each is run on    *)
(* its own, and the first state chooses which.  Callers stands for         *)
(* whatever calls a component: greenlets, tabs, sessions or processes.     *)
(***************************************************************************)
EXTENDS Naturals, Sequences

CONSTANTS Callers, Nobody,
  \* of Packages:
  Pkgs, Chatflows, Serviced, Prefixed, Starter, MaxCalls,
  \* of Backup, and of Crontab:
  Repos, MaxSnaps, Paths, Within, MaxLines,
  \* of Notices, and of Mails:
  SeenMax, Page, MaxNotices, Emails, MaxMails,
  \* of Identity, and of Wallets:
  Labels, Admins, Tries, MaxWallets,
  \* of Login, and of Certificates:
  Pages, Home, Users, MaxStates, Websites, Life, Due,
  \* of Polls:
  Voters, VoterOf, Wallets, Tokens

VARIABLES which,  \* the component whose behaviour this is
  \* of Packages:
  listed, phase, reg, conf, live, loaded, alias, seen, ops, mixed, calls,
  \* of Backup:
  job, snaps, made, green, current, backers, since,
  \* of Crontab:
  config, crontab, scripts, crons, wanted, stale, torn,
  \* of Notices:
  queue, old, drawn, held, fetcher, shown, dropped, reachable,
  \* of Mails:
  escalation, copy, outbox, mailed, taken, sent,
  \* of Identity:
  labels, admins, default, me, mine, outdated, undone,
  \* of Wallets:
  memory, store, wallets, call, activated, kept,
  \* of Login:
  next, state, states, user, owners, tabs,
  \* of Certificates:
  served, managed, age, todo, running, found, attempt, smooth, renewed,
  \* of Polls:
  users, talk, payments

Pk == INSTANCE Packages WITH spoiled <- mixed
packagesVars ==
    <<listed, phase, reg, conf, live, loaded, alias, seen, ops, mixed, calls>>

Bk == INSTANCE Backup WITH user <- backers
backupVars == <<job, snaps, made, green, current, backers, since>>

Cr == INSTANCE Crontab WITH calls <- crons, spoiled <- torn
crontabVars == <<config, crontab, scripts, crons, wanted, stale, torn>>

Nt == INSTANCE Notices WITH Fetchers <- Callers
noticesVars ==
    <<queue, old, drawn, held, fetcher, shown, dropped, reachable>>

(* Every caller is a notifier, and one that changes the addresses.         *)
Ml == INSTANCE Mails WITH Admins <- Callers, Notifiers <- Callers
mailsVars == <<escalation, copy, outbox, mailed, taken, sent>>

Id == INSTANCE Identity WITH Processes <- Callers
identityVars == <<labels, admins, default, me, mine, outdated, undone>>

Wl == INSTANCE Wallets
walletsVars == <<memory, store, wallets, call, activated, kept>>

Lg == INSTANCE Login WITH Tabs <- Callers
loginVars == <<next, state, states, user, owners, tabs>>

Ce == INSTANCE Certificates
certificatesVars ==
    <<served, managed, age, todo, running, found, attempt, smooth, renewed>>

Pl == INSTANCE Polls WITH Sessions <- Callers, Nothing <- Nobody
pollsVars == <<users, talk, payments>>

ASSUME ServerAssumption ==
  /\ Pk!NamesAssumption
  /\ Bk!BackupAssumption /\ Cr!CrontabAssumption
  /\ Nt!NoticesAssumption /\ Ml!MailsAssumption
  /\ Id!IdentityAssumption /\ Wl!WalletsAssumption
  /\ Lg!LoginAssumption /\ Ce!CertificatesAssumption
  /\ Pl!PollsAssumption

Parts == {"packages", "backup", "crontab", "notices", "mails",
          "identity", "wallets", "login", "certificates", "polls"}
Init ==
  /\ which \in Parts
  /\ Pk!Init
  /\ Bk!Init
  /\ Cr!Init
  /\ Nt!Init
  /\ Ml!Init
  /\ Id!Init
  /\ Wl!Init
  /\ Lg!Init
  /\ Ce!Init
  /\ Pl!Init

(* The others stand still while the chosen one runs. *)
PackagesRuns ==
  /\ which = "packages"
  /\ Pk!Next
  /\ UNCHANGED <<which, backupVars, crontabVars, noticesVars, mailsVars,
                  identityVars, walletsVars, loginVars, certificatesVars,
                  pollsVars>>
BackupRuns ==
  /\ which = "backup"
  /\ Bk!Next
  /\ UNCHANGED <<which, packagesVars, crontabVars, noticesVars, mailsVars,
                  identityVars, walletsVars, loginVars, certificatesVars,
                  pollsVars>>
CrontabRuns ==
  /\ which = "crontab"
  /\ Cr!Next
  /\ UNCHANGED <<which, packagesVars, backupVars, noticesVars, mailsVars,
                  identityVars, walletsVars, loginVars, certificatesVars,
                  pollsVars>>
NoticesRuns ==
  /\ which = "notices"
  /\ Nt!Next
  /\ UNCHANGED <<which, packagesVars, backupVars, crontabVars, mailsVars,
                  identityVars, walletsVars, loginVars, certificatesVars,
                  pollsVars>>
MailsRuns ==
  /\ which = "mails"
  /\ Ml!Next
  /\ UNCHANGED <<which, packagesVars, backupVars, crontabVars, noticesVars,
                  identityVars, walletsVars, loginVars, certificatesVars,
                  pollsVars>>
IdentityRuns ==
  /\ which = "identity"
  /\ Id!Next
  /\ UNCHANGED <<which, packagesVars, backupVars, crontabVars, noticesVars,
                  mailsVars, walletsVars, loginVars, certificatesVars,
                  pollsVars>>
WalletsRuns ==
  /\ which = "wallets"
  /\ Wl!Next
  /\ UNCHANGED <<which, packagesVars, backupVars, crontabVars, noticesVars,
                  mailsVars, identityVars, loginVars, certificatesVars,
                  pollsVars>>
LoginRuns ==
  /\ which = "login"
  /\ Lg!Next
  /\ UNCHANGED <<which, packagesVars, backupVars, crontabVars, noticesVars,
                  mailsVars, identityVars, walletsVars, certificatesVars,
                  pollsVars>>
CertificatesRuns ==
  /\ which = "certificates"
  /\ Ce!Next
  /\ UNCHANGED <<which, packagesVars, backupVars, crontabVars, noticesVars,
                  mailsVars, identityVars, walletsVars, loginVars,
                  pollsVars>>
PollsRuns ==
  /\ which = "polls"
  /\ Pl!Next
  /\ UNCHANGED <<which, packagesVars, backupVars, crontabVars, noticesVars,
                  mailsVars, identityVars, walletsVars, loginVars,
                  certificatesVars>>

Next ==
  \/ PackagesRuns
  \/ BackupRuns
  \/ CrontabRuns
  \/ NoticesRuns
  \/ MailsRuns
  \/ IdentityRuns
  \/ WalletsRuns
  \/ LoginRuns
  \/ CertificatesRuns
  \/ PollsRuns
vars == <<which, packagesVars, backupVars, crontabVars, noticesVars,
          mailsVars, identityVars, walletsVars, loginVars,
          certificatesVars, pollsVars>>
Spec == Init /\ [][Next]_vars

-----------------------------------------------------------------------------
(* Every variable of the component has its type. *)
TypeOK ==
  /\ which \in Parts
  /\ which = "packages" => Pk!TypeOK
  /\ which = "backup" => Bk!TypeOK
  /\ which = "crontab" => Cr!TypeOK
  /\ which = "notices" => Nt!TypeOK
  /\ which = "mails" => Ml!TypeOK
  /\ which = "identity" => Id!TypeOK
  /\ which = "wallets" => Wl!TypeOK
  /\ which = "login" => Lg!TypeOK
  /\ which = "certificates" => Ce!TypeOK
  /\ which = "polls" => Pl!TypeOK

(* What is listed is registered in every place and answers through the http *)
(* gateway, and nothing is left of what is not listed, except for packages  *)
(* that a failure or an overlap has spoiled (servers/threebot): see         *)
(* Packages.                                                                *)
PackagesAgree ==
  which = "packages" =>
    /\ Pk!ListedIsThere
    /\ Pk!ListedAnswers
    /\ Pk!UnlistedIsGone

(* No push, fetch or trim loses a notice (tools/notificationsqueue), and no *)
(* mail is sent twice (the admin's notifier): see Notices and Mails.        *)
QueuesDeliver ==
  /\ which = "notices" => Nt!NoticesKept
  /\ which = "mails" => Ml!MailedOnce

(* A wallet whose address was given to a caller stays stored until it is    *)
(* deleted (the admin's wallet actor), and the default identity is one that *)
(* is stored, and the one in use (core/identity): see Wallets and Identity. *)
AdminKeeps ==
  /\ which = "wallets" => Wl!GivenIsKept
  /\ which = "identity" => Id!DefaultStands

(* A login ends at the page it was asked for (packages/auth): see Login.    *)
LandsWhereAsked == which = "login" => Lg!LandsWhereAsked

(* A job in which nothing failed leaves no certificate in its last days     *)
(* (install/certbot and sals/nginx): see Certificates.                      *)
RenewedInTime == which = "certificates" => Ce!RenewedInTime

(* A vote weighs what the wallets hold that have paid for it                *)
(* (sals/chatflows and packages/polls): see Polls.                          *)
VotesWeighed == which = "polls" => Pl!VotesWeighed

(* A backup that is said to have succeeded is in every repository, a        *)
(* cleaning leaves no old snapshot (sals/backupjob), and a path whose       *)
(* backup was enabled stays in the crontab (tools/restic): see Backup and   *)
(* Crontab.                                                                 *)
BackupsStay ==
  /\ Bk!SavedMeansSaved
  /\ Bk!CleanLeavesNone
  /\ [](which = "crontab" => Cr!BackupsStayScheduled)
=============================================================================
