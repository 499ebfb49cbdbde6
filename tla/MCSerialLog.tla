---------------------------- MODULE MCSerialLog ----------------------------
(* Messages of one call, faults, and the logs of earlier boots. *)
EXTENDS SerialLog

One(tag, kind, v) == [tag |-> tag, ansi |-> FALSE, kind |-> kind, v |-> v]
Line(tag, kind, v) == <<[tag |-> tag, ansi |-> FALSE, kind |-> kind, v |-> v, pre |-> FALSE,
                         nl |-> TRUE, by |-> 0]>>
Write(n, wrote, wdisk) == [ino |-> n, wrote |-> wrote, size |-> wrote, wdisk |-> wdisk]

MCOneLine ==
    {One("tick", "tick", [pid |-> 0]), One("tick", "tick", [pid |-> 1]),
     One("ext2-wr", "wr", Write(1, 2, 1)), One("ext2-wr", "wr", Write(2, 3, 0)),
     One("nvme", "timeout", NoV),
     [One("init", "plain", [text |-> "started"]) EXCEPT !.ansi = TRUE]}

MCFaults == {[far |-> "0x4...", elr |-> "0x4..."]}

\* An earlier kernel printed 0x in front of the arguments of a system call.
MCOldLogs ==
    {<<Line("", "banner", NoV), Line("init", "plain", [text |-> "starting"]),
       Line("nvme", "timeout", NoV), Line("uart", "plain", NoV)>>,
     <<Line("", "uefi", NoV), Line("exc", "abort", [far |-> "0x4...", elr |-> "0x4...", pid |-> 1]),
       Line("sc-trace", "trace", NoV),
       Line("", "row", [nr |-> 64, pid |-> 1, prefixed |-> TRUE])>>,
     <<Line("exc", "abort", [far |-> "0x0", elr |-> "0x0", pid |-> 2])>>}
====
