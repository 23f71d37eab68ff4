--------------------------- MODULE AccountsProofs ---------------------------
(***************************************************************************)
(* Proofs about Accounts, for any accounts, eKYC records, files and        *)
(* numbers of concurrent requests.                                         *)
(***************************************************************************)
EXTENDS Accounts, TLAPS

USE AccountsAssumption DEF AccountsAssumption

\* Only an account that exists has asked to become an affiliate.
AskedInv == \A u \in Users : request[u] # "none" => Exists(u)

\* What a request knows of the files it works on.
Holds(r) ==
    /\ r.pc = "saving" => r.file \in disk /\ upload[r.file] = NoOne
    /\ r.pc = "listed" => \A f \in r.paths : upload[f] \in {r.user, NoOne}
    /\ r.pc = "removing" => \A f \in r.paths : upload[f] = NoOne

\* A file that is being saved is saved by one request, and no deletion knows it.
Shared(r, s) ==
    /\ r.pc = "saving"
    /\ \/ s.pc = "saving" /\ s.file = r.file
       \/ s.pc \in {"listed", "removing"} /\ r.file \in s.paths

RowsOnDisk == \A f \in Files : upload[f] # NoOne => f \in disk

FilesInv ==
    /\ RowsOnDisk /\ NoStrayFiles
    /\ \A w \in Workers : Holds(req[w])
    /\ \A v, w \in Workers : v # w => ~Shared(req[v], req[w])

-----------------------------------------------------------------------------
(***************************************************************************)
(* The shapes of the requests.                                             *)
(***************************************************************************)
LEMMA TaskFacts ==
    ASSUME NEW r \in Task
    PROVE  /\ r.pc \in {"upsert", "checked", "saving", "listed", "removing"} => r.user \in Users
           /\ r.pc = "saving" => r.file \in Files
           /\ r.pc \in {"listed", "removing"} => r.paths \subseteq Files
<1>1. r.pc \in {"upsert", "checked"} => r \in [pc : {"upsert", "checked"}, user : Users]
  BY DEF Task, Idle
<1>2. r.pc = "saving" => r \in [pc : {"saving"}, user : Users, file : Files]
  BY DEF Task, Idle
<1>3. r.pc \in {"listed", "removing"} =>
         r \in [pc : {"listed", "removing"}, user : Users, paths : SUBSET Files]
  BY DEF Task, Idle
<1> QED
  BY <1>1, <1>2, <1>3

(***************************************************************************)
(* A deletion goes on: to the removal, and from file to file.              *)
(***************************************************************************)
LEMMA DeletionMoves ==
    ASSUME NEW r \in Task, r.pc \in {"listed", "removing"}, NEW f
    PROVE  /\ [r EXCEPT !.pc = "removing"] \in Task
           /\ [r EXCEPT !.pc = "removing"].pc = "removing"
           /\ [r EXCEPT !.pc = "removing"].paths = r.paths
           /\ [r EXCEPT !.paths = @ \ {f}] \in Task
           /\ [r EXCEPT !.paths = @ \ {f}].pc = r.pc
           /\ [r EXCEPT !.paths = @ \ {f}].paths = r.paths \ {f}
<1>1. r \in [pc : {"listed", "removing"}, user : Users, paths : SUBSET Files]
  BY DEF Task, Idle
<1>2. /\ [r EXCEPT !.pc = "removing"] \in Task
      /\ [r EXCEPT !.pc = "removing"].pc = "removing"
      /\ [r EXCEPT !.pc = "removing"].paths = r.paths
  BY <1>1 DEF Task
<1>3. /\ [r EXCEPT !.paths = @ \ {f}] \in Task
      /\ [r EXCEPT !.paths = @ \ {f}].pc = r.pc
      /\ [r EXCEPT !.paths = @ \ {f}].paths = r.paths \ {f}
  BY <1>1 DEF Task
<1> QED
  BY <1>2, <1>3

(***************************************************************************)
(* An idle worker has no file.                                             *)
(***************************************************************************)
LEMMA IdleFacts == Idle \in Task /\ Idle.pc = "idle"
BY DEF Task, Idle

-----------------------------------------------------------------------------
(***************************************************************************)
(* Type correctness.                                                       *)
(***************************************************************************)
LEMMA InitTyped == Init => TypeOK
<1> SUFFICES ASSUME Init PROVE TypeOK
  OBVIOUS
<1>1. req \in [Workers -> Task]
  BY IdleFacts DEF Init
<1>2. record \in [Records -> [user : Users \cup {NoOne}, status : KycStatus]]
  BY DEF Init, KycStatus
<1> QED
  BY <1>1, <1>2 DEF Init, TypeOK, UserRole, KycStatus, Asked

(***************************************************************************)
(* The steps that leave the requests alone.                                *)
(***************************************************************************)
LEMMA AccountTyped ==
    ASSUME TypeOK, NEW u \in Users,
           \/ Register(u) \/ RegisterCustomer(u) \/ AdminCreateUser(u) \/ AdminSetRole(u)
           \/ Approve(u) \/ Reject(u) \/ SubmitKYC(u) \/ AdminSetKYC(u) \/ EnsureAdmin(u)
    PROVE  TypeOK'
<1> USE DEF TypeOK, UserRole, KycStatus, Asked
<1>1. ASSUME NEW r \in UserRole, NEW by \in {"self", "admin"}, CreateUser(u, r, by) PROVE TypeOK'
  BY <1>1 DEF CreateUser
<1>2. CASE Register(u) \/ RegisterCustomer(u) \/ AdminCreateUser(u)
  BY <1>1, <1>2 DEF Register, RegisterCustomer, AdminCreateUser
<1>3. CASE AdminSetRole(u)
  BY <1>3 DEF AdminSetRole, UpdateUserRole
<1>4. CASE Approve(u)
  BY <1>4 DEF Approve, UpdateUserRole, SetAffiliateRequestStatus
<1>5. CASE Reject(u)
  BY <1>5 DEF Reject, SetAffiliateRequestStatus
<1>6. CASE SubmitKYC(u)
  <2>1. record' \in [Records -> [user : Users \cup {NoOne}, status : KycStatus]]
    BY <1>6 DEF SubmitKYC, CreateKYCRecord
  <2> QED
    BY <1>6, <2>1 DEF SubmitKYC, SetUserKYCResult
<1>7. CASE AdminSetKYC(u)
  BY <1>7 DEF AdminSetKYC, SetUserKYCResult
<1>8. CASE EnsureAdmin(u)
  BY <1>8 DEF EnsureAdmin
<1> QED
  BY <1>2, <1>3, <1>4, <1>5, <1>6, <1>7, <1>8

(***************************************************************************)
(* Every step keeps the types.                                             *)
(***************************************************************************)
LEMMA NextTyped == TypeOK /\ [Next]_vars => TypeOK'
<1> SUFFICES ASSUME TypeOK, [Next]_vars PROVE TypeOK'
  OBVIOUS
<1>1. ASSUME NEW w \in Workers, NEW r \in Task, req' = [req EXCEPT ![w] = r],
             UNCHANGED <<tables, decided>>, disk' \subseteq Files, lost' \subseteq Files
      PROVE  TypeOK'
  BY <1>1 DEF TypeOK, tables
<1>2. ASSUME NEW w \in Workers, NEW u \in Users, Request(w, u) PROVE TypeOK'
  <2>1. [pc |-> "upsert", user |-> u] \in Task
    BY DEF Task
  <2> QED
    BY <1>1, <1>2, <2>1 DEF Request, TypeOK
<1>3. ASSUME NEW w \in Workers, NEW u \in Users, Save(w, u) PROVE TypeOK'
  <2>1. PICK f \in Files : /\ disk' = disk \cup {f}
                           /\ req' = [req EXCEPT ![w] = [pc |-> "saving", user |-> u, file |-> f]]
    BY <1>3 DEF Save
  <2>2. [pc |-> "saving", user |-> u, file |-> f] \in Task
    BY DEF Task
  <2> QED
    BY <1>1, <1>3, <2>1, <2>2 DEF Save, TypeOK
<1>4. ASSUME NEW w \in Workers, NEW u \in Users, DeleteUser(w, u) PROVE TypeOK'
  <2>1. [pc |-> "checked", user |-> u] \in Task
    BY DEF Task
  <2> QED
    BY <1>1, <1>4, <2>1 DEF DeleteUser, TypeOK
<1>5. ASSUME NEW k \in Records, ReviewKYC(k) PROVE TypeOK'
  <2>1. record[k].user \in Users
    BY <1>5 DEF ReviewKYC, TypeOK
  <2>2. PICK s \in {"approved", "rejected"} :
           record' = [record EXCEPT ![k].status = s] /\ kyc' = [kyc EXCEPT ![record[k].user] = s]
    BY <1>5 DEF ReviewKYC, SetRecordStatus, SetUserKYCResult
  <2>3. [record[k] EXCEPT !.status = s] \in [user : Users \cup {NoOne}, status : KycStatus]
    BY DEF TypeOK, KycStatus
  <2>4. record' \in [Records -> [user : Users \cup {NoOne}, status : KycStatus]]
    BY <2>2, <2>3 DEF TypeOK
  <2>5. kyc' \in [Users -> KycStatus]
    BY <2>1, <2>2 DEF TypeOK, KycStatus
  <2> QED
    BY <1>5, <2>4, <2>5 DEF ReviewKYC, TypeOK
<1>6. ASSUME NEW w \in Workers, UpsertAffiliateRequest(w) PROVE TypeOK'
  BY <1>6, IdleFacts DEF UpsertAffiliateRequest, Finish, TypeOK, Asked
<1>7. ASSUME NEW w \in Workers, CreateUpload(w) PROVE TypeOK'
  <2>1. req[w].user \in Users /\ req[w].file \in Files
    BY <1>7, TaskFacts DEF CreateUpload, At, TypeOK
  <2>2. upload' \in [Files -> Users \cup {NoOne}] /\ disk' \subseteq Files
    BY <1>7, <2>1 DEF CreateUpload, TypeOK
  <2> QED
    BY <1>7, <2>2, IdleFacts DEF CreateUpload, Finish, TypeOK
<1>8. ASSUME NEW w \in Workers, ListUploadPaths(w) PROVE TypeOK'
  <2>1. req[w].user \in Users /\ UploadsOf(req[w].user) \subseteq Files
    BY <1>8, TaskFacts DEF ListUploadPaths, At, TypeOK, UploadsOf
  <2>2. [pc |-> "listed", user |-> req[w].user, paths |-> UploadsOf(req[w].user)] \in Task
    BY <2>1 DEF Task
  <2> QED
    BY <1>1, <1>8, <2>2 DEF ListUploadPaths, TypeOK
<1>9. ASSUME NEW w \in Workers, CommitDelete(w) PROVE TypeOK'
  <2>1. req[w].user \in Users /\ [req[w] EXCEPT !.pc = "removing"] \in Task
    BY <1>9, TaskFacts, DeletionMoves DEF CommitDelete, At, TypeOK
  <2>2. req' \in [Workers -> Task]
    BY <1>9, <2>1 DEF CommitDelete, TypeOK
  <2>3. record' \in [Records -> [user : Users \cup {NoOne}, status : KycStatus]]
    BY <1>9 DEF CommitDelete, TypeOK, KycStatus
  <2>4. upload' \in [Files -> Users \cup {NoOne}] /\ lost' \subseteq Files
    BY <1>9 DEF CommitDelete, TypeOK, UploadsOf
  <2>5. /\ role' \in [Users -> UserRole \cup {"none", "deleted"}]
        /\ kyc' \in [Users -> KycStatus] /\ request' \in [Users -> Asked]
    BY <1>9 DEF CommitDelete, TypeOK, KycStatus, Asked
  <2> QED
    BY <1>9, <2>2, <2>3, <2>4, <2>5 DEF CommitDelete, TypeOK
<1>10. ASSUME NEW w \in Workers, RemoveFile(w) PROVE TypeOK'
  <2>1. req[w] \in Task /\ req[w].pc = "removing" /\ req[w].paths \subseteq Files
    BY <1>10, TaskFacts DEF RemoveFile, At, TypeOK
  <2>2. CASE req[w].paths = {}
    BY <1>1, <1>10, <2>2, IdleFacts DEF RemoveFile, Finish, TypeOK
  <2>3. CASE req[w].paths # {}
    <3>1. PICK f \in req[w].paths :
             /\ req' = [req EXCEPT ![w].paths = @ \ {f}]
             /\ \/ disk' = disk \ {f} /\ UNCHANGED lost
                \/ lost' = lost \cup {f} /\ UNCHANGED disk
      BY <1>10, <2>3 DEF RemoveFile
    <3>2. [req[w] EXCEPT !.paths = @ \ {f}] \in Task
      BY <2>1, DeletionMoves
    <3>3. req' = [req EXCEPT ![w] = [req[w] EXCEPT !.paths = @ \ {f}]]
      BY <3>1 DEF TypeOK
    <3> QED
      BY <1>1, <1>10, <2>1, <3>1, <3>2, <3>3 DEF RemoveFile, TypeOK
  <2> QED
    BY <2>2, <2>3
<1>11. ASSUME NEW w \in Workers, Abort(w) PROVE TypeOK'
  <2>1. lost' \subseteq Files
    BY <1>11, TaskFacts DEF Abort, At, TypeOK
  <2> QED
    BY <1>1, <1>11, <2>1, IdleFacts DEF Abort, Finish, TypeOK
<1>12. CASE UNCHANGED vars
  BY <1>12 DEF vars, tables, TypeOK
<1> QED
  BY <1>2, <1>3, <1>4, <1>5, <1>6, <1>7, <1>8, <1>9, <1>10, <1>11, <1>12, AccountTyped DEF Next

(***************************************************************************)
(* Accounts, files and requests keep the shape that the model gives them.  *)
(***************************************************************************)
THEOREM Typed == Spec => []TypeOK
<1> QED
  BY InitTyped, NextTyped, PTL DEF Spec

-----------------------------------------------------------------------------
(***************************************************************************)
(* Affiliates: every step keeps the two invariants of the requests.        *)
(***************************************************************************)
LEMMA RolesStep ==
    TypeOK /\ AskedInv /\ ApprovedIsSaler /\ [Next]_vars => AskedInv' /\ ApprovedIsSaler'
<1> SUFFICES ASSUME TypeOK, AskedInv, ApprovedIsSaler, [Next]_vars
             PROVE  AskedInv' /\ ApprovedIsSaler'
  OBVIOUS
<1> USE DEF TypeOK, AskedInv, ApprovedIsSaler, Exists, UserRole
<1>1. ASSUME UNCHANGED <<role, request, decided>> PROVE AskedInv' /\ ApprovedIsSaler'
  BY <1>1
<1>2. ASSUME NEW u \in Users, NEW r \in UserRole, NEW by \in {"self", "admin"},
             CreateUser(u, r, by)
      PROVE  AskedInv' /\ ApprovedIsSaler'
  <2>1. request' = request /\ request[u] = "none"
    BY <1>2 DEF CreateUser
  <2>2. \A v \in Users : role'[v] = IF v = u THEN r ELSE role[v]
    BY <1>2 DEF CreateUser
  <2>3. \A v \in Users \ {u} : decided'[v] = decided[v]
    BY <1>2 DEF CreateUser
  <2> QED
    BY <2>1, <2>2, <2>3
<1>3. ASSUME NEW u \in Users, Register(u) \/ RegisterCustomer(u) \/ AdminCreateUser(u)
      PROVE  AskedInv' /\ ApprovedIsSaler'
  BY <1>2, <1>3 DEF Register, RegisterCustomer, AdminCreateUser
<1>4. ASSUME NEW u \in Users, AdminSetRole(u) PROVE AskedInv' /\ ApprovedIsSaler'
  BY <1>4 DEF AdminSetRole, UpdateUserRole
<1>5. ASSUME NEW u \in Users, Approve(u) PROVE AskedInv' /\ ApprovedIsSaler'
  BY <1>5 DEF Approve, UpdateUserRole, SetAffiliateRequestStatus
<1>6. ASSUME NEW u \in Users, Reject(u) PROVE AskedInv' /\ ApprovedIsSaler'
  BY <1>6 DEF Reject, SetAffiliateRequestStatus
<1>7. ASSUME NEW u \in Users, EnsureAdmin(u) PROVE AskedInv' /\ ApprovedIsSaler'
  BY <1>7 DEF EnsureAdmin
<1>8. ASSUME NEW u \in Users, SubmitKYC(u) \/ AdminSetKYC(u)
      PROVE  AskedInv' /\ ApprovedIsSaler'
  BY <1>1, <1>8 DEF SubmitKYC, AdminSetKYC
<1>9. ASSUME NEW w \in Workers, NEW u \in Users, Request(w, u) \/ Save(w, u) \/ DeleteUser(w, u)
      PROVE  AskedInv' /\ ApprovedIsSaler'
  BY <1>1, <1>9 DEF Request, Save, DeleteUser, tables
<1>10. ASSUME NEW k \in Records, ReviewKYC(k) PROVE AskedInv' /\ ApprovedIsSaler'
  BY <1>1, <1>10 DEF ReviewKYC
<1>11. ASSUME NEW w \in Workers, UpsertAffiliateRequest(w) PROVE AskedInv' /\ ApprovedIsSaler'
  BY <1>11 DEF UpsertAffiliateRequest
<1>12. ASSUME NEW w \in Workers, CreateUpload(w) \/ ListUploadPaths(w) \/ RemoveFile(w) \/ Abort(w)
       PROVE  AskedInv' /\ ApprovedIsSaler'
  BY <1>1, <1>12 DEF CreateUpload, ListUploadPaths, RemoveFile, Abort, tables
<1>13. ASSUME NEW w \in Workers, CommitDelete(w) PROVE AskedInv' /\ ApprovedIsSaler'
  <2>1. PICK u \in Users : u = req[w].user
    BY <1>13, TaskFacts DEF CommitDelete, At
  <2>2. /\ \A v \in Users : role'[v] = IF v = u THEN "deleted" ELSE role[v]
        /\ \A v \in Users : request'[v] = IF v = u THEN "none" ELSE request[v]
        /\ decided' = decided
    BY <1>13, <2>1 DEF CommitDelete
  <2> QED
    BY <2>2
<1>14. CASE UNCHANGED vars
  BY <1>1, <1>14 DEF vars, tables
<1> QED
  BY <1>3, <1>4, <1>5, <1>6, <1>7, <1>8, <1>9, <1>10, <1>11, <1>12, <1>13, <1>14 DEF Next

(***************************************************************************)
(* An approved affiliate sells, unless an administrator has decided        *)
(* otherwise since.                                                        *)
(***************************************************************************)
THEOREM AffiliatesSell == Spec => []ApprovedIsSaler
<1>1. Init => AskedInv /\ ApprovedIsSaler
  BY DEF Init, AskedInv, ApprovedIsSaler
<1> QED
  BY <1>1, RolesStep, Typed, PTL DEF Spec

-----------------------------------------------------------------------------
(***************************************************************************)
(* Images: a step that changes neither file nor row, of a request that     *)
(* knows no file it has not known.                                         *)
(***************************************************************************)
LEMMA FilesQuiet ==
    ASSUME TypeOK, FilesInv, UNCHANGED <<upload, disk>>, lost \subseteq lost',
           NEW w \in Workers, NEW r \in Task, req' = [req EXCEPT ![w] = r],
           Holds(r), r.pc # "saving",
           \A v \in Workers \ {w} : ~Shared(req[v], r),
           \A f \in disk : /\ req[w].pc = "saving" /\ req[w].file = f => f \in lost'
                           /\ req[w].pc = "removing" /\ f \in req[w].paths =>
                                 f \in lost' \/ (r.pc = "removing" /\ f \in r.paths)
    PROVE  FilesInv'
<1>1. \A v \in Workers : req'[v] = IF v = w THEN r ELSE req[v]
  BY DEF TypeOK
<1>2. \A v \in Workers : Holds(req[v])'
  BY <1>1 DEF FilesInv, Holds
<1>3. ASSUME NEW v \in Workers, NEW x \in Workers, v # x PROVE ~Shared(req'[v], req'[x])
  <2>1. CASE v = w
    BY <1>1, <2>1 DEF Shared
  <2>2. CASE v # w
    BY <1>1, <1>3, <2>2 DEF FilesInv
  <2> QED
    BY <2>1, <2>2
<1>4. \A v, x \in Workers : v # x => ~Shared(req[v], req[x])'
  BY <1>3 DEF Shared
<1>5. NoStrayFiles'
  <2> SUFFICES ASSUME NEW f \in disk, upload[f] = NoOne, f \notin lost', ~Saving(f)'
               PROVE  Removing(f)'
    BY DEF NoStrayFiles
  <2>1. f \notin lost /\ (Saving(f) \/ Removing(f))
    BY DEF FilesInv, NoStrayFiles
  <2>2. ~Saving(f)
    BY <1>1 DEF Saving
  <2>3. PICK v \in Workers : req[v].pc = "removing" /\ f \in req[v].paths
    BY <2>1, <2>2 DEF Removing
  <2>4. req'[v].pc = "removing" /\ f \in req'[v].paths
    BY <1>1, <2>3
  <2> QED
    BY <2>4 DEF Removing
<1>6. RowsOnDisk'
  BY DEF FilesInv, RowsOnDisk
<1> QED
  BY <1>2, <1>4, <1>5, <1>6 DEF FilesInv

(***************************************************************************)
(* Steps that leave files, rows of files and requests alone.               *)
(***************************************************************************)
LEMMA FilesUntouched ==
    ASSUME FilesInv, UNCHANGED <<upload, disk, lost, req>>
    PROVE  FilesInv'
BY DEF FilesInv, RowsOnDisk, NoStrayFiles, Saving, Removing, Holds, Shared

(***************************************************************************)
(* A request that begins, or ends, without a file.                         *)
(***************************************************************************)
LEMMA FilesBegin ==
    ASSUME TypeOK, FilesInv, UNCHANGED <<upload, disk, lost>>,
           NEW w \in Workers, req[w].pc \notin {"saving", "removing"},
           NEW r \in Task, r.pc \in {"idle", "upsert", "checked"}, req' = [req EXCEPT ![w] = r]
    PROVE  FilesInv'
<1>1. Holds(r) /\ \A v \in Workers : ~Shared(req[v], r)
  BY DEF Holds, Shared
<1> QED
  BY <1>1, FilesQuiet

(***************************************************************************)
(* A new file has a new name.                                              *)
(***************************************************************************)
LEMMA SaveStep ==
    ASSUME TypeOK, FilesInv, NEW w \in Workers, NEW u \in Users, Save(w, u)
    PROVE  FilesInv'
<1>1. PICK f \in Files :
         /\ f \notin disk \cup lost /\ upload[f] = NoOne
         /\ ~Saving(f) /\ ~Listed(f) /\ ~Removing(f)
         /\ disk' = disk \cup {f}
         /\ req' = [req EXCEPT ![w] = [pc |-> "saving", user |-> u, file |-> f]]
  BY DEF Save
<1> DEFINE r == [pc |-> "saving", user |-> u, file |-> f]
<1>2. /\ \A v \in Workers : req'[v] = IF v = w THEN r ELSE req[v]
      /\ req[w].pc = "idle" /\ upload' = upload /\ lost' = lost
  BY <1>1 DEF Save, At, TypeOK, tables
<1>3. RowsOnDisk'
  BY <1>1, <1>2 DEF FilesInv, RowsOnDisk
<1>4. \A v \in Workers : Holds(req[v])'
  BY <1>1, <1>2 DEF FilesInv, Holds
<1>5. ASSUME NEW v \in Workers, NEW x \in Workers, v # x PROVE ~Shared(req'[v], req'[x])
  <2>1. CASE v = w
    BY <1>1, <1>2, <1>5, <2>1 DEF Shared, Saving, Listed, Removing
  <2>2. CASE x = w
    BY <1>1, <1>2, <1>5, <2>2 DEF Shared, Saving
  <2>3. CASE v # w /\ x # w
    BY <1>2, <1>5, <2>3 DEF FilesInv
  <2> QED
    BY <2>1, <2>2, <2>3
<1>6. \A v, x \in Workers : v # x => ~Shared(req[v], req[x])'
  BY <1>5 DEF Shared
<1>7. NoStrayFiles'
  <2> SUFFICES ASSUME NEW g \in disk', upload[g] = NoOne, g \notin lost
               PROVE  Saving(g)' \/ Removing(g)'
    BY <1>2 DEF NoStrayFiles
  <2>1. CASE g = f
    BY <1>2, <2>1 DEF Saving
  <2>2. CASE g # f
    <3>1. Saving(g) \/ Removing(g)
      BY <1>1, <2>2 DEF FilesInv, NoStrayFiles
    <3> QED
      BY <1>2, <3>1 DEF Saving, Removing
  <2> QED
    BY <2>1, <2>2
<1> QED
  BY <1>3, <1>4, <1>6, <1>7 DEF FilesInv

(***************************************************************************)
(* The row of a saved file is inserted, or the file is removed: no other   *)
(* request knows it.                                                       *)
(***************************************************************************)
LEMMA CreateUploadStep ==
    ASSUME TypeOK, FilesInv, NEW w \in Workers, CreateUpload(w)
    PROVE  FilesInv'
<1>1. req[w].pc = "saving" /\ req[w].user \in Users /\ req[w].file \in Files /\ Holds(req[w])
  BY TaskFacts DEF CreateUpload, At, TypeOK, FilesInv
<1>2. PICK u \in Users, f \in Files : u = req[w].user /\ f = req[w].file
  BY <1>1
<1>3. /\ \A v \in Workers : req'[v] = IF v = w THEN Idle ELSE req[v]
      /\ lost' = lost
      /\ \/ upload' = [upload EXCEPT ![f] = u] /\ disk' = disk
         \/ disk' = disk \ {f} /\ upload' = upload
  BY <1>2 DEF CreateUpload, Finish, TypeOK
<1>4. /\ \A g \in Files \ {f} : upload'[g] = upload[g] /\ (g \in disk' <=> g \in disk)
      /\ upload'[f] # NoOne => f \in disk'
      /\ f \in disk' => upload'[f] # NoOne
      /\ disk' \subseteq disk
  BY <1>1, <1>2, <1>3 DEF TypeOK, Holds
<1>5. RowsOnDisk'
  BY <1>4 DEF FilesInv, RowsOnDisk
<1>6. \A v \in Workers \ {w} : ~Shared(req[w], req[v])
  BY DEF FilesInv
<1>7. ASSUME NEW v \in Workers PROVE Holds(req[v])'
  <2>1. CASE v = w
    BY <1>3, <2>1, IdleFacts DEF Holds
  <2>2. CASE v # w
    <3>1. req'[v] = req[v] /\ Holds(req[v]) /\ req[v] \in Task
      BY <1>3, <2>2 DEF FilesInv, TypeOK
    <3>2. /\ req[v].pc = "saving" => req[v].file \in Files \ {f}
          /\ req[v].pc \in {"listed", "removing"} => req[v].paths \subseteq Files \ {f}
      BY <1>1, <1>2, <1>6, <2>2, <3>1, TaskFacts DEF Shared
    <3> QED
      BY <1>4, <3>1, <3>2 DEF Holds
  <2> QED
    BY <2>1, <2>2
<1>8. \A v, x \in Workers : v # x => ~Shared(req'[v], req'[x])
  BY <1>3, IdleFacts DEF FilesInv, Shared
<1>9. NoStrayFiles'
  <2> SUFFICES ASSUME NEW g \in disk', upload'[g] = NoOne, g \notin lost
               PROVE  Saving(g)' \/ Removing(g)'
    BY <1>3 DEF NoStrayFiles
  <2>1. g # f /\ g \in disk /\ g \in Files /\ upload[g] = NoOne
    BY <1>4 DEF TypeOK
  <2>2. Saving(g) \/ Removing(g)
    BY <2>1 DEF FilesInv, NoStrayFiles
  <2>3. \E v \in Workers \ {w} : \/ req[v].pc = "saving" /\ req[v].file = g
                                 \/ req[v].pc = "removing" /\ g \in req[v].paths
    BY <1>1, <1>2, <2>1, <2>2 DEF Saving, Removing
  <2> QED
    BY <1>3, <2>3 DEF Saving, Removing
<1> QED
  BY <1>5, <1>7, <1>8, <1>9 DEF FilesInv, Shared

(***************************************************************************)
(* The listing finds rows, and a file that is being saved has none.        *)
(***************************************************************************)
LEMMA ListStep ==
    ASSUME TypeOK, FilesInv, NEW w \in Workers, ListUploadPaths(w)
    PROVE  FilesInv'
<1> DEFINE r == [pc |-> "listed", user |-> req[w].user, paths |-> UploadsOf(req[w].user)]
<1>1. req[w].pc = "checked" /\ req[w].user \in Users
  BY TaskFacts DEF ListUploadPaths, At, TypeOK
<1>2. r \in Task
  BY <1>1 DEF Task, UploadsOf
<1>3. Holds(r)
  BY DEF Holds, UploadsOf
<1>4. ASSUME NEW v \in Workers PROVE ~Shared(req[v], r)
  BY <1>1 DEF Shared, FilesInv, Holds, UploadsOf
<1> QED
  BY <1>1, <1>2, <1>3, <1>4, FilesQuiet DEF ListUploadPaths, tables

(***************************************************************************)
(* The rows go; their files are in the list, or lost.                      *)
(***************************************************************************)
LEMMA CommitDeleteStep ==
    ASSUME TypeOK, FilesInv, NEW w \in Workers, CommitDelete(w)
    PROVE  FilesInv'
<1> DEFINE r == [req[w] EXCEPT !.pc = "removing"]
<1>1. /\ req[w] \in Task /\ req[w].pc = "listed" /\ req[w].user \in Users
      /\ req[w].paths \subseteq Files /\ Holds(req[w])
  BY TaskFacts DEF CommitDelete, At, TypeOK, FilesInv
<1>2. PICK u \in Users : u = req[w].user
  BY <1>1
<1>3. r \in Task /\ r.pc = "removing" /\ r.paths = req[w].paths
  BY <1>1, DeletionMoves
<1> HIDE DEF r
<1>4. /\ \A v \in Workers : req'[v] = IF v = w THEN r ELSE req[v]
      /\ disk' = disk /\ lost' = lost \cup (UploadsOf(u) \ req[w].paths)
      /\ \A f \in Files : upload'[f] = IF upload[f] = u THEN NoOne ELSE upload[f]
  BY <1>2 DEF CommitDelete, TypeOK, r
<1>5. RowsOnDisk'
  BY <1>4 DEF FilesInv, RowsOnDisk
<1>6. ASSUME NEW v \in Workers PROVE Holds(req[v])'
  <2>1. CASE v = w
    BY <1>1, <1>2, <1>3, <1>4, <2>1 DEF Holds
  <2>2. CASE v # w
    <3>1. req'[v] = req[v] /\ Holds(req[v]) /\ req[v] \in Task
      BY <1>4, <2>2 DEF FilesInv, TypeOK
    <3>2. /\ req[v].pc = "saving" => req[v].file \in Files
          /\ req[v].pc \in {"listed", "removing"} => req[v].paths \subseteq Files
      BY <3>1, TaskFacts
    <3> QED
      BY <1>4, <3>1, <3>2 DEF Holds
  <2> QED
    BY <2>1, <2>2
<1>7. ASSUME NEW v \in Workers, NEW x \in Workers, v # x PROVE ~Shared(req'[v], req'[x])
  <2>1. ~Shared(req[v], req[x])
    BY <1>7 DEF FilesInv
  <2> QED
    BY <1>1, <1>3, <1>4, <2>1 DEF Shared
<1>8. NoStrayFiles'
  <2> SUFFICES ASSUME NEW f \in disk, upload'[f] = NoOne, f \notin lost'
               PROVE  Saving(f)' \/ Removing(f)'
    BY <1>4 DEF NoStrayFiles
  <2>1. f \in Files /\ f \notin lost
    BY <1>4 DEF TypeOK
  <2>2. CASE upload[f] = u
    <3>1. f \in req[w].paths
      BY <1>4, <2>1, <2>2 DEF UploadsOf
    <3> QED
      BY <1>3, <1>4, <3>1 DEF Removing
  <2>3. CASE upload[f] # u
    <3>1. Saving(f) \/ Removing(f)
      BY <1>4, <2>1, <2>3 DEF FilesInv, NoStrayFiles
    <3>2. \E v \in Workers \ {w} : \/ req[v].pc = "saving" /\ req[v].file = f
                                   \/ req[v].pc = "removing" /\ f \in req[v].paths
      BY <1>1, <3>1 DEF Saving, Removing
    <3> QED
      BY <1>4, <3>2 DEF Saving, Removing
  <2> QED
    BY <2>2, <2>3
<1> QED
  BY <1>5, <1>6, <1>7, <1>8 DEF FilesInv, Shared

(***************************************************************************)
(* A file that is removed, or left, has no row and is nobody's new file.   *)
(***************************************************************************)
LEMMA RemoveFileStep ==
    ASSUME TypeOK, FilesInv, NEW w \in Workers, RemoveFile(w)
    PROVE  FilesInv'
<1>1. /\ req[w] \in Task /\ req[w].pc = "removing" /\ req[w].paths \subseteq Files
      /\ Holds(req[w]) /\ upload' = upload
  BY TaskFacts DEF RemoveFile, At, TypeOK, FilesInv, tables
<1>2. CASE req[w].paths = {}
  <2>1. Holds(Idle) /\ \A v \in Workers : ~Shared(req[v], Idle)
    BY IdleFacts DEF Holds, Shared
  <2> QED
    BY <1>1, <1>2, <2>1, IdleFacts, FilesQuiet DEF RemoveFile, Finish
<1>3. CASE req[w].paths # {}
  <2>1. PICK f \in req[w].paths :
           /\ req' = [req EXCEPT ![w].paths = @ \ {f}]
           /\ \/ disk' = disk \ {f} /\ UNCHANGED lost
              \/ lost' = lost \cup {f} /\ UNCHANGED disk
    BY <1>3 DEF RemoveFile
  <2> DEFINE r == [req[w] EXCEPT !.paths = @ \ {f}]
  <2>2. r \in Task /\ r.pc = "removing" /\ r.paths = req[w].paths \ {f}
    BY <1>1, DeletionMoves
  <2>3. req' = [req EXCEPT ![w] = r]
    BY <2>1 DEF TypeOK
  <2> HIDE DEF r
  <2>4. \A v \in Workers : req'[v] = IF v = w THEN r ELSE req[v]
    BY <2>3 DEF TypeOK
  <2>5. upload[f] = NoOne /\ f \in Files
    BY <1>1, <2>1 DEF Holds
  <2>6. disk \ {f} \subseteq disk' /\ disk' \subseteq disk /\ lost \subseteq lost'
        /\ (f \in disk' => f \in lost')
    BY <2>1
  <2>7. RowsOnDisk'
    BY <1>1, <2>5, <2>6 DEF FilesInv, RowsOnDisk
  <2>8. \A v \in Workers \ {w} : ~(req[v].pc = "saving" /\ req[v].file = f)
    BY <1>1, <2>1 DEF FilesInv, Shared
  <2>9. \A v \in Workers : Holds(req[v])'
    BY <1>1, <2>2, <2>4, <2>6, <2>8 DEF FilesInv, Holds
  <2>10. ASSUME NEW v \in Workers, NEW x \in Workers, v # x PROVE ~Shared(req'[v], req'[x])
    <3>1. ~Shared(req[v], req[x])
      BY <2>10 DEF FilesInv
    <3> QED
      BY <1>1, <2>2, <2>4, <3>1 DEF Shared
  <2>11. NoStrayFiles'
    <3> SUFFICES ASSUME NEW g \in disk', upload[g] = NoOne, g \notin lost'
                 PROVE  Saving(g)' \/ Removing(g)'
      BY <1>1 DEF NoStrayFiles
    <3>1. g # f /\ g \in disk /\ g \notin lost
      BY <2>6
    <3>2. Saving(g) \/ Removing(g)
      BY <3>1 DEF FilesInv, NoStrayFiles
    <3>3. CASE Saving(g)
      BY <1>1, <2>4, <3>3 DEF Saving
    <3>4. CASE Removing(g)
      BY <2>2, <2>4, <3>1, <3>4 DEF Removing
    <3> QED
      BY <3>2, <3>3, <3>4
  <2> QED
    BY <2>7, <2>9, <2>10, <2>11 DEF FilesInv, Shared
<1> QED
  BY <1>2, <1>3

(***************************************************************************)
(* A request that is cut off leaves its file, or the rest of its list.     *)
(***************************************************************************)
LEMMA AbortStep ==
    ASSUME TypeOK, FilesInv, NEW w \in Workers, Abort(w)
    PROVE  FilesInv'
<1>1. UNCHANGED <<upload, disk>> /\ req' = [req EXCEPT ![w] = Idle] /\ lost \subseteq lost'
  BY DEF Abort, Finish, tables
<1>2. req[w].pc = "saving" => req[w].file \in lost'
  BY DEF Abort, At
<1>3. req[w].pc = "removing" => req[w].paths \subseteq lost'
  BY DEF Abort, At
<1>4. Holds(Idle) /\ \A v \in Workers : ~Shared(req[v], Idle)
  BY IdleFacts DEF Holds, Shared
<1> QED
  BY <1>1, <1>2, <1>3, <1>4, IdleFacts, FilesQuiet

(***************************************************************************)
(* Every step keeps what is known about rows and files.                    *)
(***************************************************************************)
LEMMA FilesStep == TypeOK /\ FilesInv /\ [Next]_vars => FilesInv'
<1> SUFFICES ASSUME TypeOK, FilesInv, [Next]_vars PROVE FilesInv'
  OBVIOUS
<1>1. ASSUME NEW u \in Users,
             \/ Register(u) \/ RegisterCustomer(u) \/ AdminCreateUser(u) \/ AdminSetRole(u)
             \/ Approve(u) \/ Reject(u) \/ SubmitKYC(u) \/ AdminSetKYC(u) \/ EnsureAdmin(u)
      PROVE  FilesInv'
  <2>1. UNCHANGED <<upload, disk, lost, req>>
    BY <1>1 DEF Register, RegisterCustomer, AdminCreateUser, CreateUser, AdminSetRole, Approve,
       Reject, SubmitKYC, AdminSetKYC, EnsureAdmin
  <2> QED
    BY <2>1, FilesUntouched
<1>2. ASSUME NEW k \in Records, ReviewKYC(k) PROVE FilesInv'
  BY <1>2, FilesUntouched DEF ReviewKYC
<1>3. ASSUME NEW w \in Workers, NEW u \in Users, Request(w, u) \/ DeleteUser(w, u)
      PROVE  FilesInv'
  <2>1. [pc |-> "upsert", user |-> u] \in Task /\ [pc |-> "checked", user |-> u] \in Task
    BY DEF Task
  <2>2. UNCHANGED <<upload, disk, lost>> /\ req[w].pc = "idle"
    BY <1>3 DEF Request, DeleteUser, At, tables
  <2> QED
    BY <1>3, <2>1, <2>2, FilesBegin DEF Request, DeleteUser
<1>4. ASSUME NEW w \in Workers, UpsertAffiliateRequest(w) PROVE FilesInv'
  BY <1>4, IdleFacts, FilesBegin DEF UpsertAffiliateRequest, At, Finish
<1>5. CASE UNCHANGED vars
  BY <1>5, FilesUntouched DEF vars, tables
<1> QED
  BY <1>1, <1>2, <1>3, <1>4, <1>5, SaveStep, CreateUploadStep, ListStep, CommitDeleteStep,
     RemoveFileStep, AbortStep DEF Next

(***************************************************************************)
(* There is neither a row nor a file at first.                             *)
(***************************************************************************)
LEMMA FilesInit == Init => FilesInv
BY IdleFacts DEF Init, FilesInv, RowsOnDisk, NoStrayFiles, Holds, Shared

(***************************************************************************)
(* No row of an image is ever without its file: whoever may see it gets    *)
(* it, whatever fails or crashes.                                          *)
(***************************************************************************)
THEOREM ImagesLoad == Spec => []UploadsLoad
<1>1. TypeOK /\ FilesInv => UploadsLoad
  BY DEF FilesInv, RowsOnDisk, UploadsLoad, Load
<1> QED
  BY <1>1, FilesInit, FilesStep, Typed, PTL DEF Spec

(***************************************************************************)
(* A file without a row is in the hands of a request, or in the history of *)
(* those that a crash, a failed removal or a late upload has left.         *)
(***************************************************************************)
THEOREM StrayFilesExplained == Spec => []NoStrayFiles
<1>1. FilesInv => NoStrayFiles
  BY DEF FilesInv
<1> QED
  BY <1>1, FilesInit, FilesStep, Typed, PTL DEF Spec
=============================================================================
