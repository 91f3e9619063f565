---------------------------- MODULE MCDeviceTrust ----------------------------
EXTENDS DeviceTrust

\* The first certificate of a device, two rotations of it, and the first of
\* them with another key.
R(op, i, k, old) == [op |-> op, issuance |-> i, key |-> k, device |-> "d", old |-> old]
MCRequest == {R("issue", "i1", "k1", None), R("rotate", "i2", "k2", "i1"),
              R("rotate", "i2", "k3", "i1"), R("rotate", "i3", "k3", "i1")}

S(threads, requests, beats) == [threads |-> threads, requests |-> requests, beats |-> beats]

\* Handlers of pki-service alone; revocation and the list; heartbeats and sweeps.
MCSettings ==
    {S({"t1", "t2", "t3"}, MCRequest, {}),
     S({"t1"}, {R("issue", "i1", "k1", None), R("rotate", "i2", "k2", "i1")}, {"b1"}),
     S({"t1"}, {R("issue", "i1", "k1", None)}, {"b1", "b2"})}
=============================================================================
