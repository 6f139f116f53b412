------------------------- MODULE MCSelectiveRebuild -------------------------
(* Instances of SelectiveRebuild for TLC: a finished pipeline; one that    *)
(* ends with its cleaning and whose raw file has been normalized again;    *)
(* and, of another session, one that ends with its QC report.              *)
EXTENDS SelectiveRebuild, TLC

N(k) == <<"normalization", k>>
S(k) == <<"synchronization", k>>
C(k) == <<"cleaning", k>>
T(k) == <<"transformation", k>>
Q(k) == <<"qc", k>>
P(k) == <<"package", k>>

Art(parents, status, session, source) ==
    [parents |-> parents, status |-> status, session |-> session, source |-> source]

MCEarlier ==
    N(1) :> Art({}, "completed", "a", "imu") @@
    S(1) :> Art({N(1)}, "completed", "a", Idle) @@
    C(1) :> Art({S(1)}, "completed", "a", Idle) @@
    T(1) :> Art({C(1)}, "completed", "a", Idle) @@
    Q(1) :> Art({T(1)}, "passed", "a", Idle) @@
    P(1) :> Art({T(1), Q(1)}, "completed", "a", Idle) @@
    N(2) :> Art({}, "completed", "a", "gps") @@
    N(3) :> Art({}, "completed", "a", "gps") @@
    S(2) :> Art({N(2)}, "completed", "a", Idle) @@
    C(2) :> Art({S(2)}, "completed", "a", Idle) @@
    N(4) :> Art({}, "completed", "b", "imu") @@
    S(3) :> Art({N(4)}, "completed", "b", Idle) @@
    C(3) :> Art({S(3)}, "completed", "b", Idle) @@
    T(2) :> Art({C(3)}, "completed", "b", Idle) @@
    Q(2) :> Art({T(2)}, "passed", "b", Idle)

MCMishaps == {<<T(1), {"content_altered"}>>, <<C(1), {"manifest_rewritten", "content_missing"}>>,
              <<Q(1), {"manifest_missing"}>>}
MCCalls == {<<"synchronization", {N(1), N(4)}>>, <<"package", {T(1), Q(2)}>>, <<"cleaning", {S(1)}>>}
MCReplacements ==
    {<<"w1", N(2), N(3)>>, <<"w1", C(1), C(1)>>, <<"w1", T(1), T(1)>>, <<"w2", T(1), T(1)>>,
     <<"w2", S(1), S(3)>>, <<"w2", N(1), N(2)>>}
=============================================================================
