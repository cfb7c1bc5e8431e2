-------------------------- MODULE MCNbRestExecutor --------------------------
(* Instances of NbRestExecutor for TLC.                                    *)
EXTENDS NbRestExecutor

AllExecutions == {"ExecuteRequest", "ExecuteFileDownload", "ExecuteFileUpload"}
Request       == {"ExecuteRequest"}
Upload        == {"ExecuteFileUpload"}

(* A negative time limit means the default.                                *)
DefaultOrLimit == {-1, 5}
NoLimit        == {0}

OnlyHttp11 == {"HTTP/1.1"}
AnyVersion == {"HTTP/1.1", "HTTP/1.0"}

OkOrNotFound == {200, 404}

AllFaults == {"curl", "open", "disk"}
NoFaults  == {}

(* An int as wide as any file, and one that counts up to 2 GiB when a      *)
(* chunk is one GiB.                                                       *)
WideInt == 15
TwoGiB  == 1
=============================================================================
