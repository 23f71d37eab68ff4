------------------------------ MODULE Accounts ------------------------------
(***************************************************************************)
(* The life of an account: registration, roles, the request to become an   *)
(* affiliate, eKYC records, uploaded images and deletion (identity.go,     *)
(* affiliate.go and upload.go of service/).  An image is a file on disk    *)
(* and a row of table uploads, which no transaction keeps together.  A     *)
(* worker is one HTTP request; each step is one statement, one transaction *)
(* that reads nothing it depends on, or one file operation.                *)
(***************************************************************************)
EXTENDS Naturals, FiniteSets

CONSTANTS Users, Records, Files, Workers, NoOne

ASSUME AccountsAssumption == NoOne \notin Users

VARIABLES role,     \* users.role; "none" before, "deleted" after the row exists
          kyc,      \* users.kyc_status
          request,  \* affiliate_requests.status
          record,   \* kyc_records: owner and status
          upload,   \* uploads.user_id of each file; NoOne without a row
          disk,     \* the files in the upload directory
          decided,  \* history: who gave the account its role: itself, an approval, an administrator
          lost,     \* history: files left behind by a crash, a failed removal or a late upload
          req       \* what each worker is doing

tables == <<role, kyc, request, record, upload>>
vars   == <<tables, disk, decided, lost, req>>

UserRole  == {"customer", "investor", "saler", "admin"}
KycStatus == {"none", "pending", "approved", "rejected"}
Asked     == {"none", "pending", "approved", "rejected"}
Idle      == [pc |-> "idle"]
Task      == {Idle} \cup [pc : {"upsert", "checked"}, user : Users]
                    \cup [pc : {"saving"}, user : Users, file : Files]
                    \cup [pc : {"listed", "removing"}, user : Users, paths : SUBSET Files]

Exists(u)    == role[u] \in UserRole
UploadsOf(u) == {f \in Files : upload[f] = u}
Saving(f)    == \E w \in Workers : req[w].pc = "saving" /\ req[w].file = f
Removing(f)  == \E w \in Workers : req[w].pc = "removing" /\ f \in req[w].paths
Listed(f)    == \E w \in Workers : req[w].pc = "listed" /\ f \in req[w].paths
At(w, pc)    == req[w].pc = pc
Finish(w)    == req' = [req EXCEPT ![w] = Idle]

TypeOK ==
    /\ role \in [Users -> UserRole \cup {"none", "deleted"}]
    /\ kyc \in [Users -> KycStatus] /\ request \in [Users -> Asked]
    /\ record \in [Records -> [user : Users \cup {NoOne}, status : KycStatus]]
    /\ upload \in [Files -> Users \cup {NoOne}]
    /\ disk \subseteq Files /\ lost \subseteq Files
    /\ decided \in [Users -> {"self", "approval", "admin"}]
    /\ req \in [Workers -> Task]

Init ==
    /\ role = [u \in Users |-> "none"]
    /\ kyc = [u \in Users |-> "none"] /\ request = [u \in Users |-> "none"]
    /\ record = [k \in Records |-> [user |-> NoOne, status |-> "none"]]
    /\ upload = [f \in Files |-> NoOne] /\ disk = {}
    /\ decided = [u \in Users |-> "self"] /\ lost = {}
    /\ req = [w \in Workers |-> Idle]

-----------------------------------------------------------------------------
(***************************************************************************)
(* Registration.  An administrator's accounts of staff need no eKYC.       *)
(***************************************************************************)
CreateUser(u, r, by) ==
    /\ role[u] = "none"
    /\ role' = [role EXCEPT ![u] = r]
    /\ decided' = [decided EXCEPT ![u] = by]
    /\ kyc' = [kyc EXCEPT ![u] =
                   IF by = "admin" /\ r \in {"admin", "saler"} THEN "approved" ELSE "none"]
    /\ UNCHANGED <<request, record, upload, disk, lost, req>>

Register(u)         == CreateUser(u, "investor", "self")
RegisterCustomer(u) == CreateUser(u, "customer", "self")
AdminCreateUser(u)  == \E r \in {"investor", "saler", "admin"} : CreateUser(u, r, "admin")

UpdateUserRole(u, r, by) ==
    /\ role' = IF Exists(u) THEN [role EXCEPT ![u] = r] ELSE role
    /\ decided' = IF Exists(u) THEN [decided EXCEPT ![u] = by] ELSE decided

AdminSetRole(u) ==
    /\ Exists(u)
    /\ \E r \in UserRole : UpdateUserRole(u, r, "admin")
    /\ UNCHANGED <<kyc, request, record, upload, disk, lost, req>>

-----------------------------------------------------------------------------
(***************************************************************************)
(* Affiliates.  The role is read before the request is written: by then it *)
(* may have changed, and the request may have been decided.                *)
(***************************************************************************)
Request(w, u) ==
    /\ At(w, "idle")
    /\ role[u] = "customer"
    /\ req' = [req EXCEPT ![w] = [pc |-> "upsert", user |-> u]]
    /\ UNCHANGED <<tables, disk, decided, lost>>

UpsertAffiliateRequest(w) ==
    /\ At(w, "upsert")
    /\ request' = IF Exists(req[w].user) THEN [request EXCEPT ![req[w].user] = "pending"]
                                         ELSE request
    /\ Finish(w)
    /\ UNCHANGED <<role, kyc, record, upload, disk, decided, lost>>

SetAffiliateRequestStatus(u, s) ==
    request' = IF request[u] = "none" THEN request ELSE [request EXCEPT ![u] = s]

\* mutant: the role is left to another request, which may never come
ApproveOnly(u) ==
    /\ Exists(u)
    /\ SetAffiliateRequestStatus(u, "approved")
    /\ UNCHANGED <<role, kyc, record, upload, disk, decided, lost, req>>

Approve(u) ==
    /\ Exists(u)
    /\ UpdateUserRole(u, "saler", "approval")
    /\ SetAffiliateRequestStatus(u, "approved")
    /\ UNCHANGED <<kyc, record, upload, disk, lost, req>>

Reject(u) ==
    /\ Exists(u)
    /\ SetAffiliateRequestStatus(u, "rejected")
    /\ UNCHANGED <<role, kyc, record, upload, disk, decided, lost, req>>

-----------------------------------------------------------------------------
(***************************************************************************)
(* eKYC.  The review of any record, also of an older one or of one that is *)
(* decided already, sets the account's status with the record's.           *)
(***************************************************************************)
CreateKYCRecord(u) ==
    \E k \in Records : /\ record[k].status = "none"
                       /\ record' = [record EXCEPT ![k] = [user |-> u, status |-> "pending"]]
SetRecordStatus(k, s)  == record' = [record EXCEPT ![k].status = s]
SetUserKYCResult(u, s) == kyc' = [kyc EXCEPT ![u] = s]

SubmitKYC(u) ==
    /\ Exists(u)
    /\ CreateKYCRecord(u)
    /\ SetUserKYCResult(u, "pending")
    /\ UNCHANGED <<role, request, upload, disk, decided, lost, req>>

ReviewKYC(k) ==
    /\ record[k].user # NoOne
    /\ \E s \in {"approved", "rejected"} :
          SetRecordStatus(k, s) /\ SetUserKYCResult(record[k].user, s)
    /\ UNCHANGED <<role, request, upload, disk, decided, lost, req>>

AdminSetKYC(u) ==
    /\ Exists(u)
    /\ \E s \in {"approved", "rejected"} : SetUserKYCResult(u, s)
    /\ UNCHANGED <<role, request, record, upload, disk, decided, lost, req>>

-----------------------------------------------------------------------------
(***************************************************************************)
(* Save writes the file, then inserts its row; when the insertion fails,   *)
(* the file is removed again.  SaveProductImage does the same.             *)
(***************************************************************************)
Save(w, u) ==
    /\ At(w, "idle")
    /\ role[u] # "none"
    /\ \E f \in Files :
          /\ f \notin disk \cup lost /\ upload[f] = NoOne  \* a name is used once
          /\ ~Saving(f) /\ ~Listed(f) /\ ~Removing(f)
          /\ disk' = disk \cup {f}
          /\ req' = [req EXCEPT ![w] = [pc |-> "saving", user |-> u, file |-> f]]
    /\ UNCHANGED <<tables, decided, lost>>

\* mutant: a failed insertion leaves the file
CreateUploadOnly(w) ==
    LET u == req[w].user  f == req[w].file IN
    /\ At(w, "saving")
    /\ \/ Exists(u) /\ upload' = [upload EXCEPT ![f] = u] /\ UNCHANGED disk
       \/ UNCHANGED <<upload, disk>>
    /\ Finish(w)
    /\ UNCHANGED <<role, kyc, request, record, decided, lost>>

CreateUpload(w) ==
    LET u == req[w].user  f == req[w].file IN
    /\ At(w, "saving")
    /\ \/ Exists(u) /\ upload' = [upload EXCEPT ![f] = u] /\ UNCHANGED disk
       \/ disk' = disk \ {f} /\ UNCHANGED upload
    /\ Finish(w)
    /\ UNCHANGED <<role, kyc, request, record, decided, lost>>

Load(f, u, isAdmin) ==
    IF upload[f] = NoOne THEN "not_found"
    ELSE IF ~isAdmin /\ upload[f] # u THEN "forbidden"
    ELSE IF f \in disk THEN "served" ELSE "not_found"

-----------------------------------------------------------------------------
(***************************************************************************)
(* DeleteUser: the role is checked, the files are listed, the rows are     *)
(* deleted in one transaction (what it does to money and shares is in      *)
(* ShareIssuance and Wallet), then the files are removed one by one.  A    *)
(* row inserted after the listing is deleted without its file.             *)
(***************************************************************************)
DeleteUser(w, u) ==
    /\ At(w, "idle")
    /\ Exists(u) /\ role[u] # "admin"
    /\ req' = [req EXCEPT ![w] = [pc |-> "checked", user |-> u]]
    /\ UNCHANGED <<tables, disk, decided, lost>>

\* mutant: the files go before the transaction that deletes their rows
ListAndRemove(w) ==
    /\ At(w, "checked")
    /\ req' = [req EXCEPT ![w] = [pc |-> "listed", user |-> req[w].user,
                                  paths |-> UploadsOf(req[w].user)]]
    /\ disk' = disk \ UploadsOf(req[w].user)
    /\ UNCHANGED <<tables, decided, lost>>

ListUploadPaths(w) ==
    /\ At(w, "checked")
    /\ req' = [req EXCEPT ![w] = [pc |-> "listed", user |-> req[w].user,
                                  paths |-> UploadsOf(req[w].user)]]
    /\ UNCHANGED <<tables, disk, decided, lost>>

CommitDelete(w) ==
    LET u == req[w].user IN
    /\ At(w, "listed")
    /\ role' = [role EXCEPT ![u] = "deleted"]
    /\ kyc' = [kyc EXCEPT ![u] = "none"] /\ request' = [request EXCEPT ![u] = "none"]
    /\ record' = [k \in Records |-> IF record[k].user = u
                                    THEN [user |-> NoOne, status |-> "none"] ELSE record[k]]
    /\ upload' = [f \in Files |-> IF upload[f] = u THEN NoOne ELSE upload[f]]
    /\ lost' = lost \cup (UploadsOf(u) \ req[w].paths)
    /\ req' = [req EXCEPT ![w].pc = "removing"]
    /\ UNCHANGED <<disk, decided>>

RemoveFile(w) ==
    /\ At(w, "removing")
    /\ IF req[w].paths = {}
       THEN Finish(w) /\ UNCHANGED <<disk, lost>>
       ELSE \E f \in req[w].paths :
               /\ req' = [req EXCEPT ![w].paths = @ \ {f}]
               /\ \/ disk' = disk \ {f} /\ UNCHANGED lost
                  \/ lost' = lost \cup {f} /\ UNCHANGED disk
    /\ UNCHANGED <<tables, decided>>

(***************************************************************************)
(* A request is cut off: a crash, or a transaction rolled back.  A file    *)
(* that was being saved or removed then stays on disk.                     *)
(***************************************************************************)
Abort(w) ==
    /\ ~At(w, "idle")
    /\ lost' = lost \cup CASE At(w, "saving")   -> {req[w].file}
                           [] At(w, "removing") -> req[w].paths
                           [] OTHER             -> {}
    /\ Finish(w)
    /\ UNCHANGED <<tables, disk, decided>>

\* At its start the program makes the configured account an administrator.
EnsureAdmin(u) ==
    /\ \A w \in Workers : At(w, "idle")
    /\ role[u] # "deleted"
    /\ role' = [role EXCEPT ![u] = "admin"]
    /\ decided' = [decided EXCEPT ![u] = "admin"]
    /\ kyc' = IF role[u] = "none" THEN [kyc EXCEPT ![u] = "approved"] ELSE kyc
    /\ UNCHANGED <<request, record, upload, disk, lost, req>>

Next ==
    \/ \E u \in Users :
          \/ Register(u) \/ RegisterCustomer(u) \/ AdminCreateUser(u) \/ AdminSetRole(u)
          \/ Approve(u) \/ Reject(u) \/ SubmitKYC(u) \/ AdminSetKYC(u) \/ EnsureAdmin(u)
          \/ \E w \in Workers : Request(w, u) \/ Save(w, u) \/ DeleteUser(w, u)
    \/ \E k \in Records : ReviewKYC(k)
    \/ \E w \in Workers :
          \/ UpsertAffiliateRequest(w) \/ CreateUpload(w) \/ ListUploadPaths(w)
          \/ CommitDelete(w) \/ RemoveFile(w) \/ Abort(w)

Spec == Init /\ [][Next]_vars

-----------------------------------------------------------------------------
(***************************************************************************)
(* The request of an affiliate is approved only together with the role:    *)
(* an account with an approved request sells, unless an administrator has  *)
(* given it another role since.                                            *)
(***************************************************************************)
ApprovedIsSaler ==
    \A u \in Users : request[u] = "approved" => role[u] = "saler" \/ decided[u] = "admin"

(***************************************************************************)
(* Whoever may see an image gets it: whatever fails or crashes in an       *)
(* upload or a deletion, no row is left without its file.                  *)
(***************************************************************************)
UploadsLoad ==
    \A f \in Files, u \in Users : upload[f] = u => Load(f, u, FALSE) = "served"

(***************************************************************************)
(* And no file is left without its row, unless a crash, a failed removal   *)
(* or an upload during the deletion of its account left it behind.         *)
(***************************************************************************)
NoStrayFiles ==
    \A f \in disk : upload[f] # NoOne \/ Saving(f) \/ Removing(f) \/ f \in lost

-----------------------------------------------------------------------------
(***************************************************************************)
(* What the comments say and the code does not keep: TLC finds a           *)
(* counterexample when one of these is named in the configuration.         *)
(***************************************************************************)
(***************************************************************************)
(* "Only admin accounts and self-deletion are refused": the account that   *)
(* is deleted is not an administrator's.                                   *)
(***************************************************************************)
AdminsKept ==
    [][\A u \in Users : role[u] = "admin" => role'[u] # "deleted"]_vars

(***************************************************************************)
(* "removes an account and ALL data tied to it [...] uploaded images".     *)
(***************************************************************************)
ImagesDeleted == \A f \in disk : upload[f] = NoOne => Saving(f) \/ Removing(f)

(***************************************************************************)
(* "Chi role=customer moi can/duoc yeu cau": a pending request is a        *)
(* customer's.                                                             *)
(***************************************************************************)
PendingIsCustomer == \A u \in Users : request[u] = "pending" => role[u] = "customer"
=============================================================================
