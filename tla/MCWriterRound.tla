---------------------------- MODULE MCWriterRound ----------------------------
(* An instance of WriterRound for TLC: three methods, the texts a seed, an    *)
(* addition, a correction and a weakened file can be, and replies of the    *)
(* Reviewer of every kind.                                                  *)
EXTENDS WriterRound, TLC

CONSTANTS m1, m2, m3

MCMethods == {m1, m2, m3}

Text(one, two, three) == (m1 :> one) @@ (m2 :> two) @@ (m3 :> three)
MCStarts == {Text("base", "absent", "absent")}
MCTried == {Text("base", "strong", "absent")}
MCCodes ==
    {Text("base", "absent", "absent"), Text("strong", "absent", "absent"), Text("base", "base", "absent"),
     Text("base", "strong", "absent"), Text("base", "other", "absent"), Text("base", "absent", "base"),
     Text("base", "strong", "base")}

Finding(category, at, basis, claim) == [category |-> category, at |-> at, basis |-> basis, claim |-> claim]
Missing == Finding("missing-scenario", m1, "judgment", "concrete")
Wrong(m, basis) == Finding("correction", m, basis, "concrete")
MCReplies ==
    {{}, {Finding("correction", m1, "garbled", "concrete")}, {Missing}, {Wrong(m1, "verified")},
     {Wrong(m1, "unknown")}, {Wrong(m2, "judgment")},
     {Wrong(m1, "judgment"), Wrong(m2, "judgment")}, {Missing, Wrong(m1, "judgment")},
     {Finding("correction", "setup", "judgment", "concrete")},
     {Wrong(m1, "requirement")}, {Finding("correction", m1, "judgment", "other-outcome")},
     {Finding("correction", m1, "judgment", "weaker")}}
=============================================================================
