----------------------------- MODULE NodeDetail -----------------------------
(***************************************************************************)
(* node-detail-view: the sections of a node's page, and the guests whose   *)
(* action panels each of them holds.                                       *)
(***************************************************************************)
EXTENDS GuestActions

CONSTANT Lxc            \* the guests that are containers

ASSUME NodeConstants == Lxc \subseteq Guest

(* The four tasks of the view, and those that depend on _actionReload. *)
NodeSections == {"detail", "lxc", "qemu", "tasks"}
NodeReloads == {"lxc", "qemu"}

(* The header with its gauges, the rows of the two lists, the node's tasks. *)
DetailRows == {}
LxcRows == Lxc
QemuRows == Guest \ Lxc
TasksRows == {}

NodeRows == [detail |-> DetailRows, lxc |-> LxcRows, qemu |-> QemuRows, tasks |-> TasksRows]
=============================================================================
