---------------------------- MODULE MCNodeServer ----------------------------
(***************************************************************************)
(* The server and its storage on small instances: one vault with two       *)
(* blobs, two sockets of one device, and a few events of each workload.    *)
(***************************************************************************)
EXTENDS NodeServer, TLC

CONSTANTS v1, v1again

Events == {"socket", "message", "alarm", "collect", "upload", "download", "purge",
           "flush", "hangup", "signal", "kill"}

On(backends, stored, open, some) ==
  {[backend |-> b, stored |-> stored, open |-> open,
    budget |-> [e \in Events |-> IF e \in DOMAIN some THEN some[e] ELSE 0]] : b \in backends}

OneVault ==
  [c \in Calls |-> IF c = <<v1again, "alarm">> \/ c[2] = "late" THEN v1again ELSE v1]

Reopened == [v \in Vault |-> IF v = v1 THEN v1again ELSE v1]

OneDevice == [s \in Sock |-> "device"]

All == {"disk", "s3", "r2"}

\* Uploads beside each other and a purge, with a crash; a download beside a
\* purge; an upload and a download beside a collection.
Transfers ==
  On(All, {}, {}, [upload |-> 2, purge |-> 1])
    \cup On({"disk"}, {}, {}, [upload |-> 2, kill |-> 2])
    \cup On(All, Key, {}, [download |-> 1, upload |-> 1, purge |-> 1])
    \cup On(All, Key, {v1}, [upload |-> 1, alarm |-> 1, collect |-> 1])

\* Sockets, requests, an alarm and a flush around a shutdown.
Shutdowns ==
  On({"disk"}, {}, {}, [socket |-> 2, message |-> 1, signal |-> 1])
    \cup On({"disk"}, {}, {v1}, [socket |-> 1, message |-> 1, alarm |-> 1, flush |-> 1,
                              signal |-> 1])
    \cup On({"disk"}, {}, {}, [socket |-> 1, upload |-> 1, hangup |-> 1, signal |-> 1])

AllScenarios == Transfers \cup Shutdowns

\* A message and an alarm around a shutdown.
Alarms == On({"disk"}, {}, {v1}, [socket |-> 1, alarm |-> 1, signal |-> 1])
=============================================================================
