------------------------- MODULE MCTase2TransferSet -------------------------
\* Small instances of Tase2TransferSet for TLC.
EXTENDS Tase2TransferSet, TLC

CONSTANTS a, b, p, q

Flags ==
  {"interval", "periodic", "integrity", "change", "buffer", "rbe", "all", "critical"}

\* The configuration with these flags and this data set.
With(flags, ds) ==
  [f \in Flags \cup {"dataSet"} |-> IF f = "dataSet" THEN ds ELSE f \in flags]

Critical == With({"change", "rbe", "critical"}, <<p, q>>)

\* Critical reports at once; changes collected for a time; changes collected until the
\* integrity period; everything but critical reports.  Interval is 0 in the second and third.
Configs ==
  {Critical,
   With({"interval", "change", "buffer", "rbe"}, <<q, p, Refused>>),
   With({"interval", "integrity", "rbe"}, <<p, q>>),
   With(Flags \ {"critical"}, <<p, q>>)}

CriticalOnly == {Critical}
=============================================================================
