-------------------------- MODULE MCModelDiskCache --------------------------
(* Small instances of ModelDiskCache for TLC. *)
EXTENDS ModelDiskCache

CONSTANTS
  u1, u2,                   \* threads of two runs of the extractor
  extractor1, extractor2,   \* ids of their processes
  bridge                    \* the id of a process of the bridge, which clears

MCPidOf ==
  [a \in Agents |-> CASE a = u1 -> extractor1 [] a = u2 -> extractor2 [] OTHER -> bridge]
=============================================================================
