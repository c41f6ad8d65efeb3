----------------------------- MODULE Endpoints -----------------------------
(***************************************************************************)
(* The endpoints of the BFF that hand a page's call on to Proxmox, as      *)
(* tables: what the web client asks for (api.ts), which handlers the       *)
(* controllers offer, and what the services read at Proxmox for each.  A   *)
(* path is the sequence of its segments; "*" stands for a parameter.       *)
(***************************************************************************)
EXTENDS Naturals, Sequences, FiniteSets

Get(path)  == <<"GET">> \o path
Post(path) == <<"POST">> \o path
Put(path)  == <<"PUT">> \o path

(* api.ts, with values in the place of the parameters. *)
NodesApi == [nodes_list  |-> Get(<<"nodes">>),
             nodes_get   |-> Get(<<"nodes", "n1">>),
             nodes_tasks |-> Get(<<"nodes", "n1", "tasks">>)]

GuestsApi == [guests_all   |-> Get(<<"guests">>),
              lxc_list     |-> Get(<<"nodes", "n1", "lxc">>),
              lxc_config   |-> Get(<<"nodes", "n1", "lxc", "100">>),
              lxc_status   |-> Get(<<"nodes", "n1", "lxc", "100", "status">>),
              lxc_ssh      |-> Get(<<"nodes", "n1", "lxc", "100", "ssh">>),
              lxc_action   |-> Post(<<"nodes", "n1", "lxc", "100", "action">>),
              lxc_update   |-> Put(<<"nodes", "n1", "lxc", "100", "config">>),
              qemu_list    |-> Get(<<"nodes", "n1", "qemu">>),
              qemu_config  |-> Get(<<"nodes", "n1", "qemu", "100">>),
              qemu_status  |-> Get(<<"nodes", "n1", "qemu", "100", "status">>),
              qemu_ssh     |-> Get(<<"nodes", "n1", "qemu", "100", "ssh">>),
              qemu_action  |-> Post(<<"nodes", "n1", "qemu", "100", "action">>),
              qemu_update  |-> Put(<<"nodes", "n1", "qemu", "100", "config">>)]

StorageApi == [storage_all    |-> Get(<<"storage">>),
               storage_node   |-> Get(<<"nodes", "n1", "storage">>),
               storage_detail |-> Get(<<"nodes", "n1", "storage", "s1">>)]

(* The controllers' handlers, named like the calls they are meant for, all *)
(* of them behind the SessionGuard.                                        *)
NodesRoutes == [nodes_list  |-> Get(<<"nodes">>),
                nodes_get   |-> Get(<<"nodes", "*">>),
                nodes_tasks |-> Get(<<"nodes", "*", "tasks">>)]

GuestsRoutes == [lxc_list    |-> Get(<<"nodes", "*", "lxc">>),
                 lxc_config  |-> Get(<<"nodes", "*", "lxc", "*">>),
                 lxc_action  |-> Post(<<"nodes", "*", "lxc", "*", "action">>),
                 lxc_status  |-> Get(<<"nodes", "*", "lxc", "*", "status">>),
                 qemu_config |-> Get(<<"nodes", "*", "qemu", "*">>),
                 qemu_status |-> Get(<<"nodes", "*", "qemu", "*", "status">>),
                 qemu_list   |-> Get(<<"nodes", "*", "qemu">>),
                 qemu_action |-> Post(<<"nodes", "*", "qemu", "*", "action">>),
                 qemu_update |-> Put(<<"nodes", "*", "qemu", "*", "config">>),
                 lxc_update  |-> Put(<<"nodes", "*", "lxc", "*", "config">>),
                 lxc_ssh     |-> Get(<<"nodes", "*", "lxc", "*", "ssh">>),
                 qemu_ssh    |-> Get(<<"nodes", "*", "qemu", "*", "ssh">>)]

GuestsListRoutes == [guests_all |-> Get(<<"guests">>)]

StorageRoutes == [storage_all |-> Get(<<"storage">>)]

NodeStorageRoutes == [storage_node   |-> Get(<<"nodes", "*", "storage">>),
                      storage_detail |-> Get(<<"nodes", "*", "storage", "*">>)]

(* What the services call at Proxmox: a failure of one of "needs" fails    *)
(* the answer, one of "may" is replaced by nothing.                        *)
Calls(needs, may) == [needs |-> needs, may |-> may]

NodesReads == [nodes_list  |-> Calls({"/nodes"}, {}),
               nodes_get   |-> Calls({"/nodes/n/status", "/nodes/n/version"}, {"/nodes/n/subscription"}),
               nodes_tasks |-> Calls({"/nodes/n/tasks"}, {})]

GuestsReads == [guests_all  |-> Calls({"/cluster/resources"}, {}),
                lxc_list    |-> Calls({"/nodes/n/lxc"}, {}),
                lxc_config  |-> Calls({"/nodes/n/lxc/i/config"}, {}),
                lxc_status  |-> Calls({"/nodes/n/lxc/i/status/current"}, {}),
                lxc_ssh     |-> Calls({}, {}),
                lxc_action  |-> Calls({"/nodes/n/lxc/i/status/a"}, {}),
                lxc_update  |-> Calls({"/nodes/n/lxc/i/config"}, {}),
                qemu_list   |-> Calls({"/nodes/n/qemu"}, {}),
                qemu_config |-> Calls({"/nodes/n/qemu/i/config"}, {}),
                qemu_status |-> Calls({"/nodes/n/qemu/i/status/current"}, {}),
                qemu_ssh    |-> Calls({}, {}),
                qemu_action |-> Calls({"/nodes/n/qemu/i/status/a"}, {}),
                qemu_update |-> Calls({"/nodes/n/qemu/i/config"}, {})]

StorageReads == [storage_all    |-> Calls({"/storage"}, {}),
                 storage_node   |-> Calls({"/nodes/n/storage"}, {}),
                 storage_detail |-> Calls({"/nodes/n/storage/s/status"}, {"/nodes/n/storage/s/content"})]

-----------------------------------------------------------------------------
(* The tasks of each view of the page (but the login form and the terminal *)
(* popup, which have none), and the parameters that start them again.      *)
DashboardTasks == {"nodes_list", "guests_all", "storage_all"}
NodesTasks == {"nodes_list"}
NodeDetailTasks == {"nodes_get", "lxc_list", "qemu_list", "nodes_tasks"}
LxcTasks == {"guests_all"}
LxcDetailTasks == {"lxc_status", "lxc_config"}
VmTasks == {"guests_all"}
VmDetailTasks == {"qemu_status", "qemu_config"}
StorageTasks == {"storage_all"}
StorageDetailTasks == {"storage_detail"}

ViewTasks == [dashboard |-> DashboardTasks, nodes |-> NodesTasks, node |-> NodeDetailTasks,
              lxc |-> LxcTasks, lxc_guest |-> LxcDetailTasks, vm |-> VmTasks, vm_guest |-> VmDetailTasks,
              storage |-> StorageTasks, storage_pool |-> StorageDetailTasks]

Of(c, tables) == (CHOOSE t \in tables : c \in DOMAIN t)[c]
Api(c)   == Of(c, {NodesApi, GuestsApi, StorageApi})
Reads(c) == Of(c, {NodesReads, GuestsReads, StorageReads})
RouteTables == {NodesRoutes, GuestsRoutes, GuestsListRoutes, StorageRoutes, NodeStorageRoutes}
Route(r) == Of(r, RouteTables)
ApiCalls == DOMAIN NodesApi \cup DOMAIN GuestsApi \cup DOMAIN StorageApi
Handlers == UNION {DOMAIN t : t \in RouteTables}

Matches(route, path) == /\ Len(route) = Len(path)
                        /\ \A i \in 1..Len(path) : route[i] \in {"*", path[i]}

(* Every call of the client reaches the handler that is meant for it, and  *)
(* no other handler would take it, in whatever order they are declared.    *)
ASSUME CallsReachTheirHandler ==
  \A c \in ApiCalls : {h \in Handlers : Matches(Route(h), Api(c))} = {c}

ASSUME ViewsCallWhatThereIs ==
  \A v \in DOMAIN ViewTasks : \A c \in ViewTasks[v] : c \in ApiCalls /\ Reads(c).needs # {}
=============================================================================
