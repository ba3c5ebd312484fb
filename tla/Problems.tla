------------------------------ MODULE Problems ------------------------------
(***************************************************************************)
(* The catalogue of well-known errors (api/problem/registry.go): the HTTP  *)
(* status each code is answered with.  Titles, descriptions and advice are *)
(* wording and left out.                                                   *)
(***************************************************************************)
EXTENDS Integers, TLC

(* API *)
protocolProblems ==
  [c \in {"API006", "API007", "API008", "API011", "API016"} |-> 400]
  @@ [c \in {"API001", "API002", "API003"} |-> 406]
  @@ [c \in {"API010", "API015"} |-> 409]
  @@ [c \in {"API012"} |-> 410]
  @@ [c \in {"API013"} |-> 412]
  @@ [c \in {"API004"} |-> 415]
  @@ [c \in {"API014"} |-> 422]
  @@ [c \in {"API005", "API009"} |-> 500]

(* AUT, ACL, OPS, CSR, FLT and SEA *)
callerProblems ==
  [c \in {"AUT003", "FLT001", "FLT002", "FLT003", "FLT004", "SEA001", "SEA002"} |-> 400]
  @@ [c \in {"AUT001"} |-> 401]
  @@ [c \in {"AUT002", "AUT005", "AUT006", "ACL001", "ACL002", "ACL003", "OPS001",
          "CSR001"} |-> 403]
  @@ [c \in {"CSR002"} |-> 421]
  @@ [c \in {"AUT004"} |-> 500]

(* MTR, LOG, SSE and ENG *)
backendProblems ==
  [c \in {"MTR003", "MTR004", "MTR006", "MTR009", "LOG002", "LOG003", "LOG004",
          "LOG005", "ENG003"} |-> 400]
  @@ [c \in {"MTR005", "LOG001", "LOG009", "SSE001"} |-> 429]
  @@ [c \in {"MTR007", "LOG006", "LOG007", "LOG008", "ENG004"} |-> 500]
  @@ [c \in {"MTR002", "MTR008", "ENG006"} |-> 502]
  @@ [c \in {"MTR001", "ENG001", "ENG002"} |-> 503]
  @@ [c \in {"ENG005"} |-> 504]

(* SWM, PLG and NOD *)
clusterProblems ==
  [c \in {"SWM010", "SWM011", "PLG002", "PLG005", "NOD004", "NOD005"} |-> 400]
  @@ [c \in {"PLG004", "NOD003"} |-> 404]
  @@ [c \in {"SWM012", "PLG006", "NOD001", "NOD002"} |-> 409]
  @@ [c \in {"SWM003", "SWM005", "SWM006", "SWM007", "SWM008", "SWM009", "PLG001",
          "PLG003"} |-> 500]
  @@ [c \in {"SWM001", "SWM004"} |-> 501]
  @@ [c \in {"SWM002"} |-> 503]

(* SVC *)
serviceProblems ==
  [c \in {"SVC004", "SVC005", "SVC006", "SVC007", "SVC010", "SVC011", "SVC012",
          "SVC013", "SVC014", "SVC015", "SVC016", "SVC017", "SVC018", "SVC019",
          "SVC020", "SVC021"} |-> 400]
  @@ [c \in {"SVC003"} |-> 404]
  @@ [c \in {"SVC001", "SVC002"} |-> 409]

(* TSK, EXE, STK and ATT *)
taskProblems ==
  [c \in {"ATT003"} |-> 400]
  @@ [c \in {"EXE004"} |-> 403]
  @@ [c \in {"TSK002", "EXE006", "STK001", "ATT002", "ATT004", "ATT005", "ATT006",
          "ATT007"} |-> 404]
  @@ [c \in {"TSK001", "EXE001", "EXE002", "EXE005"} |-> 409]
  @@ [c \in {"EXE003"} |-> 429]
  @@ [c \in {"ATT008"} |-> 502]
  @@ [c \in {"ATT001"} |-> 503]

(* ANN, VOL, NET, CFG and SEC *)
resourceProblems ==
  [c \in {"ANN001", "CFG004", "SEC004"} |-> 400]
  @@ [c \in {"SEC007"} |-> 403]
  @@ [c \in {"ANN004", "VOL002", "NET002", "CFG002", "SEC002", "SEC006"} |-> 404]
  @@ [c \in {"ANN002", "ANN003", "VOL001", "NET001", "CFG001", "CFG003", "CFG005",
          "SEC001", "SEC003", "SEC005"} |-> 409]
  @@ [c \in {"ANN005"} |-> 503]

registry == protocolProblems @@ callerProblems @@ backendProblems @@ clusterProblems
            @@ serviceProblems @@ taskProblems @@ resourceProblems

(* problem.Write: an unknown code is a 500 carrying the detail. *)
Status(code) == IF code \in DOMAIN registry THEN registry[code] ELSE 500
=============================================================================
