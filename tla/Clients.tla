------------------------------- MODULE Clients -------------------------------
(***************************************************************************)
(* The clients and tools that share no state.  A behaviour of all of them  *)
(* is a shuffle of theirs, so each is run on its own, and the first state  *)
(* chooses which.  Callers stands for whatever calls a component.          *)
(***************************************************************************)
EXTENDS Naturals, Sequences

CONSTANTS Callers,
  \* of Droplets:
  DropletNames, Lower, Spared, Projects, Default, MaxDroplets,
  \* of Circles, and of CircleFiles:
  Circle, Comments, ItemTasks, Fields, MaxItems,
  Filed, Story, Task, Nowhere, Archived,
  \* of Tree, and of Syncthing:
  NodeNames, Depth, MaxNodes, EntryNames, MaxEntries,
  \* of Gateway:
  Hosts, V4, V6, Malformed, MaxRecords,
  \* of Labels:
  LabelNames, LabelLower, Replace, UnknownType, Protected, GetColor, Wants,
  Absent, Nothing,
  \* of Vesting:
  Cosigners, Owner, Account, Strangers, Transactions, Known, Weights, MaxChanges,
  \* of Stats:
  Endpoints, Detailed, MaxAccounts, Unknown, PageSize, Supply

VARIABLES which,  \* the component whose behaviour this is
  \* of Droplets:
  droplets, dropletsMade, projects, sshkey, deploys, overlaps, doomed,
  \* of Circles:
  circles, attributes, items, made, moves, written, late,
  \* of CircleFiles:
  under, files, listing, imported, state, changed,
  \* of Tree:
  tree, promised,
  \* of Syncthing:
  entries, copies, outdated, heads, lost,
  \* of Gateway:
  records, services, registering, behind, kept,
  \* of Labels:
  labels, cache, labelling, spoiled, gone,
  \* of Vesting:
  weights, preauth, thresholds, scheme, changes,
  \* of Stats:
  tokens, held, locked, call, cached, steady, ever, moved

Dr == INSTANCE Droplets WITH Names <- DropletNames, made <- dropletsMade
dropletsVars ==
    <<droplets, dropletsMade, projects, sshkey, deploys, overlaps, doomed>>

Ci == INSTANCE Circles WITH Tasks <- ItemTasks, Movers <- Callers, kept <- written
circlesVars == <<circles, attributes, items, made, moves, written, late>>

(* The circles of CircleFiles are others than those of Circles. *)
Fi == INSTANCE CircleFiles WITH Circle <- Filed, import <- imported, spoiled <- changed
filesVars == <<under, files, listing, imported, state, changed>>

Tr == INSTANCE Tree WITH Names <- NodeNames
treeVars == <<tree, promised>>

Sy == INSTANCE Syncthing WITH Clients <- Callers, Names <- EntryNames,
      behind <- outdated
syncthingVars == <<entries, copies, outdated, heads, lost>>

Ga == INSTANCE Gateway WITH calls <- registering
gatewayVars == <<records, services, registering, behind, kept>>

La == INSTANCE Labels WITH Names <- LabelNames, Lower <- LabelLower,
      Unknown <- UnknownType, calls <- labelling
labelsVars == <<labels, cache, labelling, spoiled, gone>>

Ve == INSTANCE Vesting
vestingVars == <<weights, preauth, thresholds, scheme, changes>>

St == INSTANCE Stats
statsVars == <<tokens, held, locked, call, cached, steady, ever, moved>>

ASSUME ClientsAssumption ==
  /\ Dr!DropletsAssumption
  /\ Ci!CirclesAssumption /\ Fi!FilesAssumption
  /\ Tr!TreeAssumption /\ Sy!SyncthingAssumption /\ Ga!GatewayAssumption
  /\ La!LabelsAssumption
  /\ Ve!VestingAssumption
  /\ St!StatsAssumption

Parts == {"droplets", "circles", "files", "tree", "syncthing",
          "gateway", "labels", "vesting", "stats"}
Init ==
  /\ which \in Parts
  /\ Dr!Init
  /\ Ci!Init
  /\ Fi!Init
  /\ Tr!Init
  /\ Sy!Init
  /\ Ga!Init
  /\ La!Init
  /\ Ve!Init
  /\ St!Init
  /\ which # "labels" => labels = La!None

(* The others stand still while the chosen one runs. *)
DropletsRuns ==
  /\ which = "droplets"
  /\ Dr!Next
  /\ UNCHANGED <<which, circlesVars, filesVars, treeVars, syncthingVars,
                  gatewayVars, labelsVars, vestingVars, statsVars>>
CirclesRuns ==
  /\ which = "circles"
  /\ Ci!Next
  /\ UNCHANGED <<which, dropletsVars, filesVars, treeVars, syncthingVars,
                  gatewayVars, labelsVars, vestingVars, statsVars>>
FilesRuns ==
  /\ which = "files"
  /\ Fi!Next
  /\ UNCHANGED <<which, dropletsVars, circlesVars, treeVars, syncthingVars,
                  gatewayVars, labelsVars, vestingVars, statsVars>>
TreeRuns ==
  /\ which = "tree"
  /\ Tr!Next
  /\ UNCHANGED <<which, dropletsVars, circlesVars, filesVars, syncthingVars,
                  gatewayVars, labelsVars, vestingVars, statsVars>>
SyncthingRuns ==
  /\ which = "syncthing"
  /\ Sy!Next
  /\ UNCHANGED <<which, dropletsVars, circlesVars, filesVars, treeVars,
                  gatewayVars, labelsVars, vestingVars, statsVars>>
GatewayRuns ==
  /\ which = "gateway"
  /\ Ga!Next
  /\ UNCHANGED <<which, dropletsVars, circlesVars, filesVars, treeVars,
                  syncthingVars, labelsVars, vestingVars, statsVars>>
LabelsRuns ==
  /\ which = "labels"
  /\ La!Next
  /\ UNCHANGED <<which, dropletsVars, circlesVars, filesVars, treeVars,
                  syncthingVars, gatewayVars, vestingVars, statsVars>>
VestingRuns ==
  /\ which = "vesting"
  /\ Ve!Next
  /\ UNCHANGED <<which, dropletsVars, circlesVars, filesVars, treeVars,
                  syncthingVars, gatewayVars, labelsVars, statsVars>>
StatsRuns ==
  /\ which = "stats"
  /\ St!Next
  /\ UNCHANGED <<which, dropletsVars, circlesVars, filesVars, treeVars,
                  syncthingVars, gatewayVars, labelsVars, vestingVars>>

Next ==
  \/ DropletsRuns
  \/ CirclesRuns
  \/ FilesRuns
  \/ TreeRuns
  \/ SyncthingRuns
  \/ GatewayRuns
  \/ LabelsRuns
  \/ VestingRuns
  \/ StatsRuns
vars == <<which, dropletsVars, circlesVars, filesVars, treeVars,
          syncthingVars, gatewayVars, labelsVars, vestingVars,
          statsVars>>
Spec == Init /\ [][Next]_vars

-----------------------------------------------------------------------------
(* Every variable of the component has its type. *)
TypeOK ==
  /\ which \in Parts
  /\ which = "droplets" => Dr!TypeOK
  /\ which = "circles" => Ci!TypeOK
  /\ which = "files" => Fi!TypeOK
  /\ which = "tree" => Tr!TypeOK
  /\ which = "syncthing" => Sy!TypeOK
  /\ which = "gateway" => Ga!TypeOK
  /\ which = "labels" => La!TypeOK
  /\ which = "vesting" => Ve!TypeOK
  /\ which = "stats" => St!TypeOK

(* A name is the name of one droplet, and delete_all destroys none that it  *)
(* spares (clients/digitalocean): see Droplets.                             *)
NamedOnce == which = "droplets" => Dr!NamedOnce

(* Nothing that was written to a story or an issue is lost when it is       *)
(* moved, and an export can be imported whole (clients/taiga): see Circles  *)
(* and CircleFiles.                                                         *)
CirclesKept ==
  /\ which = "circles" => Ci!PartsKept
  /\ which = "files" => Fi!ExportIsWhole

(* What was put into a configuration stays there: the paths of a tree       *)
(* (data/treemanager), the lists of Syncthing, the records of the gateway:  *)
(* see Tree, Syncthing and Gateway.                                         *)
EntriesStay ==
  /\ which = "tree" => Tr!TreeIsItsPaths
  /\ which = "syncthing" => Sy!EntriesKept
  /\ which = "gateway" => Ga!RecordsKept

(* A call leaves the labels it was asked for (clients/github): see Labels.  *)
LabelsAreSet == which = "labels" => La!LabelsAreSet

(* What is taken for a vesting account is safe as one (clients/stellar),    *)
(* and what is counted as locked was locked (packages/stellar_stats): see   *)
(* Vesting and Stats.                                                       *)
LedgerReadRight ==
  /\ which = "vesting" => Ve!VestingIsSafe
  /\ which = "stats" => St!StatsAddUp
=============================================================================
