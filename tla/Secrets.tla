------------------------------- MODULE Secrets -------------------------------
(***************************************************************************)
(* The vCenter credentials of the agent: KeyManager, Crypto,               *)
(* CredentialsService, the credentials store, its handlers, and the logins *)
(* of pkg/vmware/auth.go they make.                                        *)
(*                                                                         *)
(* A ciphertext is the pair of a key and a plain text: Decrypt succeeds    *)
(* with that key only. A URL is its path (segments), the slashes after it, *)
(* whether it parses, and whether it carries user info or a query. What    *)
(* the accounts may do in vCenter does not change.                         *)
(***************************************************************************)
EXTENDS Integers, Sequences, FiniteSets

CONSTANTS
    Calls,            \* HTTP requests on /credentials
    Accounts,         \* user names, each with its password
    Urls,             \* vCenter URLs users type
    MasterPasswords,  \* master passwords
    MaxKeys,          \* bound: keys ever generated
    Datacenters,      \* datacenters of the vCenter
    CollectorRequiredPrivileges,
    InspectorRequiredPrivileges,
    ForecasterRequiredPrivileges,
    Grants            \* what the vCenter may grant the accounts, per folder

\* Segments of the path of a URL.
Segments == {"sdk", "other"}

Privileges == CollectorRequiredPrivileges \cup InspectorRequiredPrivileges
              \cup ForecasterRequiredPrivileges

\* collectDatacenterFolders: all folders, and the VM folders, of every datacenter.
Folders == {"vm", "host", "datastore", "network"}
allRefs == Datacenters \X Folders
vmFolderRefs == Datacenters \X {"vm"}

ASSUME SecretsAssumption ==
    /\ IsFiniteSet(Calls) /\ MaxKeys \in Nat /\ MaxKeys >= 1
    /\ \A u \in Urls : u \in [parses : BOOLEAN, userinfo : BOOLEAN, query : BOOLEAN,
                              path : Seq(Segments), slashes : Nat]
    /\ \A g \in Grants : g \in [allRefs -> SUBSET Privileges]

VARIABLES
    api,              \* the generation served: v1 over one Store, v2 over the pool
    dataFolder,       \* cfg.Agent.DataFolder is set
    agent,            \* where the process is
    keyFile,          \* content of credentials.key
    key,              \* KeyManager.key
    generated,        \* keys generated so far
    row,              \* the row "credentials" of the table credentials
    password,         \* the row of master_password: the password hashed in it
    call,
    granted           \* privileges of the accounts on the folders of a datacenter

secretVars == <<api, dataFolder, agent, keyFile, key, generated, row, password, call,
                granted>>

NoRow == [url |-> "none"]
NoPassword == "none"
Torn == -1
NoFile == 0

\* The operations of handlers/v2/credentials.go and SetMasterPassword.
Operations == {"put", "get", "capabilities", "delete", "setmaster"}

-----------------------------------------------------------------------------
(* pkg/crypto and pkg/vmware/auth.go *)

\* Hash256: the key made from a master password; never one of a key file.
Hash256(p) == <<"sha256", p>>
Key(n) == <<"file", n>>

\* Encrypt: user name and password each under a key derived from k; the rest of
\* the record stays readable.
Encrypt(k, c) == [url |-> c.url, tls |-> c.tls, user |-> <<k, c.user>>]

\* decryptField authenticates: any other key is an error.
Decryptable(k, r) == r.user[1] = k
Decrypt(k, r) == [url |-> r.url, tls |-> r.tls, user |-> r.user[2]]

\* Verify recomputes the hash with the stored salt and parameters.
Verify(p, stored) == p = stored

\* NormalizeAndValidateURL: trailing slashes go, /sdk is appended unless there.
NormalizeAndValidateURL(u) ==
    [u EXCEPT !.slashes = 0,
              !.path = IF @ # <<>> /\ @[Len(@)] = "sdk" THEN @ ELSE Append(@, "sdk")]

\* CredsFromAPI: a CA certificate and skipTls exclude each other; without a
\* certificate TLS is not verified unless skipTls is false. "invalid" is the
\* refusal of the request.
CredsFromAPI(cacert, skipTls) ==
    IF cacert # "absent"
    THEN IF skipTls = "true" \/ cacert = "notpem" THEN "invalid" ELSE "cacert"
    ELSE IF skipTls = "false" THEN "verify" ELSE "skip"

\* checkPrivileges of GetCapabilities: the privileges missing on some folder.
checkPrivileges(refs, required) == UNION {required \ granted[ref] : ref \in refs}

\* GetCapabilities: the collector needs its privileges on every folder, the
\* inspector and the forecaster theirs on the VM folders. An operation is enabled
\* when nothing is missing.
Capabilities ==
    [collector  |-> checkPrivileges(allRefs, CollectorRequiredPrivileges),
     inspector  |-> checkPrivileges(vmFolderRefs, InspectorRequiredPrivileges),
     forecaster |-> checkPrivileges(vmFolderRefs, ForecasterRequiredPrivileges)]

-----------------------------------------------------------------------------
(* KeyManager, at startup *)

NoCall == [pc |-> "idle", op |-> "none"]

SecretInit ==
    /\ api \in {"v1", "v2"} /\ dataFolder \in BOOLEAN /\ agent = "down" /\ keyFile = NoFile /\ key = 0
    /\ generated = 0 /\ row = NoRow /\ password = NoPassword
    /\ call = [c \in Calls |-> NoCall] /\ granted \in Grants

serving == <<api, dataFolder, row, password, call, granted>>

\* NewKeyManager without a data folder: a key for this process only.
EphemeralKey ==
    /\ agent = "down" /\ ~dataFolder /\ generated < MaxKeys
    /\ generated' = generated + 1 /\ key' = generated + 1 /\ agent' = "up"
    /\ UNCHANGED <<keyFile, serving>>

\* The key of the file, when it has the right length.
ReadKey ==
    /\ agent = "down" /\ dataFolder /\ keyFile > 0
    /\ key' = keyFile /\ agent' = "up"
    /\ UNCHANGED <<keyFile, generated, serving>>

\* No file, or one of another length: a new key; os.WriteFile truncates the file ...
GenerateKey ==
    /\ agent = "down" /\ dataFolder /\ keyFile <= 0 /\ generated < MaxKeys
    /\ generated' = generated + 1 /\ key' = generated + 1
    /\ keyFile' = Torn /\ agent' = "keygen"
    /\ UNCHANGED serving

\* ... and then writes it.
WriteKey ==
    /\ agent = "keygen" /\ keyFile' = key /\ agent' = "up"
    /\ UNCHANGED <<key, generated, serving>>

\* The process dies, anywhere; requests under way are lost. Without a data folder
\* the database of v1 is in memory (initStore), the one of v2 in the working
\* directory (initPool).
Crash ==
    /\ agent # "down" /\ agent' = "down" /\ key' = 0
    /\ call' = [c \in Calls |-> NoCall]
    /\ IF api = "v1" /\ ~dataFolder
       THEN row' = NoRow /\ password' = NoPassword
       ELSE UNCHANGED <<row, password>>
    /\ UNCHANGED <<api, dataFolder, keyFile, generated, granted>>

-----------------------------------------------------------------------------
(* The requests *)

Goto(c, s) == call' = [call EXCEPT ![c] = s]
Answer(c, status) == Goto(c, [pc |-> "done", op |-> call[c].op, status |-> status])
AnswerTo(c, op, status) == Goto(c, [pc |-> "done", op |-> op, status |-> status])
Serving(c, pc) == agent = "up" /\ call[c].pc = pc

\* A request is answered and the next one may come.
Free(c) == agent = "up" /\ call[c].pc \in {"idle", "done"}

keeping == <<api, dataFolder, agent, keyFile, key, generated, granted>>

\* PutCredentials and the checks of Store: a URL that does not parse or carries
\* user info, or contradictory TLS options, are a 400; the query is dropped.
PutCredentials(c) ==
    /\ Free(c)
    /\ \E u \in Urls, a \in Accounts, cacert \in {"absent", "notpem", "pem"},
          skipTls \in {"absent", "true", "false"} :
         LET tls == CredsFromAPI(cacert, skipTls) IN
         IF tls = "invalid" \/ ~u.parses \/ u.userinfo
         THEN AnswerTo(c, "put", 400)
         ELSE Goto(c, [pc |-> "verify", op |-> "put",
                       creds |-> [url |-> [NormalizeAndValidateURL(u) EXCEPT !.query = FALSE],
                                  tls |-> tls, user |-> a]])
    /\ UNCHANGED <<keeping, row, password>>

\* VerifyCredentials: Connect and Logout; a failure of either kind is a 400.
VerifyCredentials(c) ==
    /\ Serving(c, "verify")
    /\ \/ Goto(c, [call[c] EXCEPT !.pc = "save"])
       \/ Answer(c, 400)
    /\ UNCHANGED <<keeping, row, password>>

\* Mutant: the record is encrypted under the master password.
SaveHashed(c) ==
    /\ Serving(c, "save")
    /\ row' = Encrypt(Hash256(password), call[c].creds)
    /\ Answer(c, 200)
    /\ UNCHANGED <<keeping, password>>

\* Save: one upsert of the record encrypted under the key manager's key.
Save(c) ==
    /\ Serving(c, "save")
    /\ row' = Encrypt(Key(key), call[c].creds)
    /\ Answer(c, 200)
    /\ UNCHANGED <<keeping, password>>

\* Get, as Status and Resolve report it: 404 without a row, 500 when it cannot
\* be decrypted.
GetRow(c, op) ==
    IF row = NoRow THEN AnswerTo(c, op, 404)
    ELSE IF ~Decryptable(Key(key), row) THEN AnswerTo(c, op, 500)
    ELSE IF op = "get" THEN AnswerTo(c, op, 200)
    ELSE Goto(c, [pc |-> "login", op |-> op, creds |-> Decrypt(Key(key), row)])

GetCredentials(c) ==
    /\ Free(c) /\ GetRow(c, "get")
    /\ UNCHANGED <<keeping, row, password>>

GetCredentialCapabilities(c) ==
    /\ Free(c) /\ GetRow(c, "capabilities")
    /\ UNCHANGED <<keeping, row, password>>

\* The login of GetCapabilities; a vCenter that cannot be reached is a 404.
CapabilitiesLogin(c) ==
    /\ Serving(c, "login")
    /\ \/ Goto(c, [call[c] EXCEPT !.pc = "privileges"])
       \/ Answer(c, 404)
    /\ UNCHANGED <<keeping, row, password>>

\* Folders and privileges are fetched.
FetchPrivileges(c) ==
    /\ Serving(c, "privileges")
    /\ \/ Goto(c, [pc |-> "done", op |-> "capabilities", status |-> 200,
                   result |-> Capabilities])
       \/ Answer(c, 404)
    /\ UNCHANGED <<keeping, row, password>>

\* DeleteCredentials: DeleteAll.
DeleteCredentials(c) ==
    /\ Free(c) /\ row' = NoRow /\ AnswerTo(c, "delete", 204)
    /\ UNCHANGED <<keeping, password>>

\* SetMasterPassword: HasMasterPassword decides how it goes on ...
HasMasterPassword(c) ==
    /\ Free(c)
    /\ \E old, new \in MasterPasswords :
         Goto(c, [pc |-> IF password = NoPassword THEN "first" ELSE "change",
                  op |-> "setmaster", old |-> old, new |-> new])
    /\ UNCHANGED <<keeping, row, password>>

\* ... a first password is stored as it is ...
SavePassword(c) ==
    /\ Serving(c, "first")
    /\ password' = call[c].new /\ Answer(c, 204)
    /\ UNCHANGED <<keeping, row>>

\* ... otherwise the old one is verified ...
VerifyMasterPassword(c) ==
    /\ Serving(c, "change")
    /\ IF Verify(call[c].old, password)
       THEN Goto(c, [call[c] EXCEPT !.pc = "reencrypt"])
       ELSE Answer(c, 500)
    /\ UNCHANGED <<keeping, row, password>>

\* ... and one transaction re-encrypts the rows and stores the new hash: a row
\* the old password does not decrypt rolls it back.
ChangePassword(c) ==
    /\ Serving(c, "reencrypt")
    /\ IF row = NoRow \/ Decryptable(Hash256(call[c].old), row)
       THEN /\ row' = IF row = NoRow THEN row
                      ELSE Encrypt(Hash256(call[c].new), Decrypt(Hash256(call[c].old), row))
            /\ password' = call[c].new /\ Answer(c, 204)
       ELSE UNCHANGED <<row, password>> /\ Answer(c, 500)
    /\ UNCHANGED keeping

Handlers(c) == \/ PutCredentials(c) \/ GetCredentials(c) \/ DeleteCredentials(c)
               \/ GetCredentialCapabilities(c)
StoreCredentials(c) == VerifyCredentials(c) \/ Save(c)
GetCapabilities(c) == CapabilitiesLogin(c) \/ FetchPrivileges(c)
SetMasterPassword(c) == \/ HasMasterPassword(c) \/ SavePassword(c)
                        \/ VerifyMasterPassword(c) \/ ChangePassword(c)

\* The handlers and the service of v1 are the same code over store.Store.
HandlersV1(c) == api = "v1" /\ Handlers(c)
StoreV1(c) == api = "v1" /\ StoreCredentials(c)
GetCapabilitiesV1(c) == api = "v1" /\ GetCapabilities(c)
SetMasterPasswordV1(c) == api = "v1" /\ SetMasterPassword(c)

CredentialsV2(c) ==
    api = "v2" /\ (Handlers(c) \/ StoreCredentials(c) \/ GetCapabilities(c) \/ SetMasterPassword(c))

SecretNext ==
    \/ EphemeralKey \/ ReadKey \/ GenerateKey \/ WriteKey \/ Crash
    \/ \E c \in Calls : \/ HandlersV1(c) \/ StoreV1(c) \/ GetCapabilitiesV1(c)
                        \/ SetMasterPasswordV1(c) \/ CredentialsV2(c)

SecretSpec == SecretInit /\ [][SecretNext]_secretVars

-----------------------------------------------------------------------------
(* Properties *)

\* What NormalizeAndValidateURL and Store let through: a URL of the SDK, with
\* no slash after it, no user info and no query.
SdkUrls == {u \in [parses : {TRUE}, userinfo : {FALSE}, query : {FALSE},
                   path : Seq(Segments), slashes : {0}] :
                u.path # <<>> /\ u.path[Len(u.path)] = "sdk"}

CredentialValues == [url : SdkUrls, tls : {"cacert", "verify", "skip"}, user : Accounts]

\* No record is encrypted under a master password.
KeyValues == {Key(n) : n \in 1..MaxKeys}
RowValues == [url : SdkUrls, tls : {"cacert", "verify", "skip"}, user : KeyValues \X Accounts]
Statuses == {200, 204, 400, 404, 500}

CallValues ==
    {NoCall}
    \cup [pc : {"done"}, op : Operations, status : Statuses]
    \cup [pc : {"done"}, op : {"capabilities"}, status : {200},
          result : [{"collector", "inspector", "forecaster"} -> SUBSET Privileges]]
    \cup [pc : {"verify", "save"}, op : {"put"}, creds : CredentialValues]
    \cup [pc : {"login", "privileges"}, op : {"capabilities"}, creds : CredentialValues]
    \cup [pc : {"first", "change", "reencrypt"}, op : {"setmaster"}, old : MasterPasswords,
          new : MasterPasswords]

SecretTypeOK ==
    /\ api \in {"v1", "v2"} /\ dataFolder \in BOOLEAN /\ agent \in {"down", "keygen", "up"}
    /\ keyFile \in Torn..MaxKeys /\ key \in 0..MaxKeys /\ generated \in 0..MaxKeys
    /\ row \in RowValues \cup {NoRow} /\ password \in MasterPasswords \cup {NoPassword}
    /\ call \in [Calls -> CallValues]
    /\ granted \in [allRefs -> SUBSET Privileges]

\* Credentials survive a restart: with a data folder, whatever is stored can be
\* decrypted with the key in the file, also when the agent died while it wrote
\* the key, and however changes of the master password interleave with it.
\* Without one, v1 forgets the key and the rows together.
RecordsReadable ==
    row # NoRow =>
        /\ dataFolder => keyFile > 0 /\ Decryptable(Key(keyFile), row)
        /\ ~dataFolder /\ api = "v1" => Decryptable(Key(key), row)

-----------------------------------------------------------------------------
(* The inductive invariant of Services_proofs. *)

\* The key the agent serves with is the one in the file; while it is being
\* written the file has none. Without a data folder there is no file.
KeyInFile ==
    /\ agent = "up" => key > 0 /\ (dataFolder => keyFile = key)
    /\ agent = "keygen" => dataFolder /\ key > 0 /\ keyFile = Torn
    /\ agent = "down" /\ api = "v1" /\ ~dataFolder => row = NoRow

SecretInv == SecretTypeOK /\ KeyInFile /\ RecordsReadable

-----------------------------------------------------------------------------
(* What the repository says and the code does not do *)

\* credentials.go:41 "SetMasterPassword changes the master password,
\* re-encrypting all stored credentials." Records are encrypted under the key
\* manager's key, so with a stored record no change ever succeeds.
RightPasswordAccepted ==
    [][\A c \in Calls :
          call[c].pc = "reencrypt" /\ call'[c].pc = "done" /\ agent' = "up"
          => call'[c].status = 204]_secretVars

\* credentials.go:67 "old password is incorrect". The transaction does not look
\* again: of two changes that verified the same password the second replaces a
\* password it does not know.
OldPasswordNeeded ==
    [][\A c \in Calls :
          call[c].pc = "reencrypt" /\ call'[c].pc = "done" /\ agent' = "up"
          /\ call'[c].status = 204 => call[c].old = password]_secretVars
=============================================================================
