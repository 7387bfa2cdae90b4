------------------------------ MODULE MCConfGate ------------------------------
(* Model-checking instance of ConfGate: three writers, each writing one of    *)
(* the lines below, which cover every branch of conf_write.                   *)
EXTENDS ConfGate

CONSTANTS w1, w2, w3, w4

MCWriters == {w1, w2, w3}
MCWriters4 == {w1, w2, w3, w4}

Line(i, v, c) == [instr |-> i, val |-> v, copy |-> c]

MCLines ==
    { Line("pid", Decimal(0, 42), "ok"),      \* pid=42
      Line("pid", Decimal(1, 42), "ok"),      \* pid=4294967338, truncated to 42
      Line("pid", Decimal(0, 0), "ok"),       \* pid=0
      Line("pid", NoVal, "ok"),               \* pid
      Line("con", Word("PROCFS"), "ok"),      \* con=PROCFS
      Line("con", Word("NL"), "ok"),          \* con=NL
      Line("con", Word("junk"), "ok"),        \* con=junk
      Line("con", NoVal, "ok"),               \* con
      Line("foo", Word("junk"), "ok"),        \* an unknown key
      Line("con", Word("IOCTL"), "overflow"), \* more than 40 bytes
      Line("con", Word("IOCTL"), "efault") }  \* a bad user pointer

\* The daemon's registration lines only (spec: "identity=42", "transport=...").
MCRegLines == { Line("pid", Decimal(0, 42), "ok"), Line("con", Word("PROCFS"), "ok") }

\* A registration whose value part is missing.
MCMalformedLines == { Line("pid", NoVal, "ok") }
=============================================================================
