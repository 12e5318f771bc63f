--------------------------- MODULE MCValdevStats ---------------------------
(* The device with a record of every combination of counter, open count    *)
(* and length it has been in, to ask whether GET_STATS reports one of them.*)
EXTENDS Valdev

VARIABLE past  \* the statistics that were true at some instant

StatsCalls == {"open", "add", "stats"}

Now == [counter |-> abs.counter, buf_len |-> abs.len, opens |-> opens]

StatsInit == Init /\ past = {Now}

StatsNext == Next /\ past' = past \cup {Now'}

StatsSpec == StatsInit /\ [][StatsNext]_<<vars, past>>

(* GET_STATS "snapshots counter, open count and buffer length atomically"  *)
(* (kmod/valdev_ioctl.h:37): what a successful call reports was true of    *)
(* the device at one instant.  valdev_ioctl reads opens after it released  *)
(* the mutex.                                                              *)
StatsSnapshot ==
  \A p \in Threads :
    pc[p] = "leave" /\ loc[p].call = "stats" /\ loc[p].ret = 0 => loc[p].stats \in past
=============================================================================
