---------------------------- MODULE MCNodeChecks ----------------------------
(***************************************************************************)
(* A small instance of NodeChecks: a node with one thing wrong, two where  *)
(* one may hide the other.                                                 *)
(***************************************************************************)
EXTENDS NodeChecks

Whole == [mem |-> 100, cpus |-> 2, gpus |-> 2, smi |-> TRUE, mounted |-> TRUE,
          trouble |-> "none"]

\* No check tells these from others that are there.
Alike == {"root inodes gone", "interface absent", "command hangs"}

MCNodes ==
    {Whole, [Whole EXCEPT !.mem = 98], [Whole EXCEPT !.mem = 97, !.cpus = 1],
     [Whole EXCEPT !.smi = FALSE], [Whole EXCEPT !.gpus = 1, !.smi = FALSE],
     [Whole EXCEPT !.gpus = 1],
     [Whole EXCEPT !.mounted = FALSE, !.trouble = "mount full"]}
        \cup {[Whole EXCEPT !.trouble = t] : t \in Troubles \ ({"mount full"} \cup Alike)}

MCAdminFile ==
    <<"swap_usage", "network_interface", "command", "load_average",
      "disk_usage_root", "dir_size_tmp", "zombie_processes", "mount_present",
      "disk_usage_mount", "real_memory", "cpu_count", "gpu_count">>
=============================================================================
