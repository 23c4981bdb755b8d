-------------------------- MODULE MCBaselineCampaign --------------------------
(* Instances of BaselineCampaign for TLC: the baseline with two fuzz targets, *)
(* and the one with a time limit and its evidence in the build tree.          *)
EXTENDS BaselineCampaign, TLC

CONSTANTS lf, ct, x

TwoCampaigns == <<lf, ct>>
TwoBaselines == lf :> "libFuzzer" @@ ct :> "cryptoTesting"
CrashFiles == lf :> {} @@ ct :> {x}

\* Status writes are lost and containers outlive their clients in the second only.
FaultsPerBaseline == lf :> {"start", "kill", "compact"} @@ ct :> FaultKinds
=============================================================================
