------------------------------ MODULE WebSetup ------------------------------
(***************************************************************************)
(* Process bootstrap (src/cmd/run.go run) and the web setup server it      *)
(* starts by default (--web 1): src/web/router/router.go and the handlers  *)
(* of src/web/controller/controller.go that change state, with the         *)
(* service calls they make (src/web/service/service.go).                   *)
(*                                                                         *)
(* The main goroutine loads the config, opens the ledger at its db path,   *)
(* and in web mode blocks on "done" while the operator fills the forms;    *)
(* POST /status closes "done".  The main goroutine then saves the config   *)
(* and starts the workers from it.  The web server keeps serving: its      *)
(* handlers go on mutating the shared *Config, the global BtcNetParam and  *)
(* the service's account after "done".  Handlers are atomic with respect   *)
(* to each other (one operator); main's steps interleave with them.        *)
(*                                                                         *)
(* Files, passwords, db paths and redeem scripts are model values; a       *)
(* wallet file opens with a password when the pair is in "unlocks".  A     *)
(* form field is Absent, "" or a value.                                    *)
(***************************************************************************)
EXTENDS Naturals, FiniteSets

CONSTANTS
    Files,        \* wallet / key file paths
    Pwds,         \* passwords
    InitUnlocks,  \* <<file, pwd>> pairs that open an account at start
    DbPaths,      \* ConfigDBPath values
    Redeems,      \* hex strings offered as Redeem
    GoodRedeems,  \* those that hex-decode
    NetNames,     \* ConfigBitcoinNet / form "nt" values offered
    InitConf,     \* the config file (--config) when the process starts
    WebFlags,     \* values of the --web flag considered (1 is TRUE)
    Mode,         \* --mode: "all", "onlyob" or "onlysig"
    MaxRequests   \* bound on the web requests of a behaviour

Absent == "absent"    \* ctx.GetPostForm returns ok = false
NoAcc  == "noacc"     \* BtcService.Acc is nil
NilNet == "nil"       \* config.BtcNetParam is nil

ConfFields == [wallet : Files \cup {""}, opwd : Pwds \cup {""},
               bwallet : Files \cup {""}, bpwd : Pwds \cup {""},
               net : NetNames \cup {""}, db : DbPaths \cup {""}, redeem : Redeems \cup {""}]

\* &Config{} before NewConfig fills it.
EmptyConf == [wallet |-> "", opwd |-> "", bwallet |-> "", bpwd |-> "",
              net |-> "", db |-> "", redeem |-> ""]

ASSUME InitConf \in ConfFields /\ InitUnlocks \subseteq Files \X Pwds
ASSUME GoodRedeems \subseteq Redeems /\ Mode \in {"all", "onlyob", "onlysig"}

VARIABLES
    conf,      \* the shared *Config
    saved,     \* the config file on disk (--config)
    netParam,  \* config.BtcNetParam
    acc,       \* BtcService.Acc: the wallet whose account it holds
    unlocks,   \* wallet contents: which <<file, pwd>> opens an account
    done,      \* the done channel is closed
    pc,        \* the main goroutine of run()
    vdbPath,   \* the path the ledger was opened at (run.go:86), "" before
    obPath,    \* the db path the Observer was started with (last_height)
    subs,      \* transactions the handlers submitted to poly
    reqs,      \* web requests served so far
    isWeb,     \* the --web flag of this run
    posted     \* history: POST /status has been served

vars == <<conf, saved, netParam, acc, unlocks, done, pc, vdbPath, obPath, subs, reqs, isWeb, posted>>

TypeOK ==
    /\ conf \in ConfFields /\ saved \in ConfFields
    /\ netParam \in {NilNet, "main", "test", "regtest"}
    /\ acc \in Files \cup {NoAcc}
    /\ unlocks \subseteq (Files \X (Pwds \cup {""}))
    /\ done \in BOOLEAN
    /\ pc \in {"load", "web", "net", "start", "running", "fatal", "panic"}
    /\ vdbPath \in DbPaths \cup {""} /\ obPath \in DbPaths \cup {""}
    /\ subs \subseteq [kind : {"contract", "param"}, via : {"index", "func"},
                       acc : Files \cup {NoAcc}, wallet : Files \cup {""}]
    /\ reqs \in 0..MaxRequests /\ isWeb \in BOOLEAN /\ posted \in BOOLEAN

-----------------------------------------------------------------------------
(* Helpers                                                                 *)

\* utils.GetAccountByPassword: the wallet's default account decrypts.
Opens(f, p) == <<f, p>> \in unlocks

\* A wallet file at f already holds a (default) account.
WalletExists(f) == \E p \in Pwds \cup {""} : <<f, p>> \in unlocks

\* The net switch of HandleStatus and HandleInit: anything but "regtest"
\* and "test" is the main net.
NetOf(nt) == CASE nt = "regtest" -> "regtest" [] nt = "test" -> "test" [] OTHER -> "main"

\* "if ok && v != \"\" { field = v }": a form value that replaces a field.
Given(v) == v \notin {Absent, ""}
Update(old, v) == IF Given(v) THEN v ELSE old

\* Controller.getORCPwd: open the configured wallet; on success the service
\* holds its account.  On failure Acc keeps whatever it held.
GetORCPwd(c) == IF Opens(c.wallet, c.opwd) THEN c.wallet ELSE acc

FormOf(S) == S \cup {Absent, ""}

\* hex.DecodeString succeeds (on "" too, giving an empty script).
Decodes(r) == r = "" \/ r \in GoodRedeems

\* Form values of a field whose handler treats absent and "" alike.
Blank(S) == S \cup {""}

\* One more web request may be served: the server runs from its start in
\* web mode until the process exits (log.Fatalf, or a panic in main).
Serve ==
    /\ isWeb /\ pc \notin {"load", "fatal", "panic"}
    /\ reqs < MaxRequests /\ reqs' = reqs + 1 /\ UNCHANGED isWeb

Init ==
    /\ conf = EmptyConf /\ saved = InitConf
    /\ netParam = NilNet /\ acc = NoAcc /\ unlocks = InitUnlocks
    /\ done = FALSE
    /\ isWeb \in WebFlags
    /\ pc = "load"
    /\ vdbPath = "" /\ obPath = ""
    /\ subs = {} /\ reqs = 0 /\ posted = FALSE

\* startSigner: GetAccountByPassword on the poly wallet, then NewSigner's
\* on the BTC key file.
StartSigner(c, op, bp) == Opens(c.wallet, op) /\ Opens(c.bwallet, bp)

\* NewSigner: btcutil.NewAddressPubKey reads BtcNetParam.PubKeyHashAddrID.
NewSignerPanics == netParam = NilNet

\* BtcService.GenePrivkAndAddr: NewWIF needs BtcNetParam, account.Open
\* needs a path; the key is then imported into that wallet.
GenePrivkOk(path) == path \in Files /\ netParam # NilNet

\* BtcService.GeneRedeem: NewAddressPubKey of each key needs BtcNetParam.
GeneRedeemOk == netParam # NilNet

-----------------------------------------------------------------------------
(* The main goroutine: run()                                               *)

\* Config.Save: MarshalIndent and ioutil.WriteFile; when the file cannot be
\* opened for writing the error is returned and the file stays as it was.
Save(c) ==
    \/ saved' = c
    \/ UNCHANGED saved

\* config.NewConfig: readFile (OpenFile, ReadAll) and json.Unmarshal into
\* an empty Config.  It succeeds with the file's fields, or fails: the file
\* cannot be opened or read, or its JSON does not parse.
NewConfig(file) == {[ok |-> TRUE, conf |-> file], [ok |-> FALSE, conf |-> EmptyConf]}

\* run(): NewConfig(--config), fatal on error; conf.Save("./config/conf.json"),
\* a second file whose error is ignored; db.NewVendorDB(ConfigDBPath),
\* fatal on error.  The web server starts after this, in web mode.
MainLoad ==
    /\ pc = "load"
    /\ \E r \in NewConfig(saved) :
         \/ /\ r.ok
            /\ conf' = r.conf /\ vdbPath' = r.conf.db
            /\ pc' = IF isWeb THEN "web" ELSE "net"
         \/ /\ r.ok                          \* NewVendorDB fails
            /\ conf' = r.conf /\ pc' = "fatal"
            /\ UNCHANGED vdbPath
         \/ /\ ~r.ok
            /\ pc' = "fatal"
            /\ UNCHANGED <<conf, vdbPath>>
    /\ UNCHANGED <<saved, netParam, acc, unlocks, done, obPath, subs, reqs, isWeb, posted>>

\* <-done, then conf.Save(--config); a failed write is only logged.
MainWake ==
    /\ pc = "web" /\ done
    /\ Save(conf)
    /\ pc' = "start"
    /\ UNCHANGED <<conf, netParam, acc, unlocks, done, vdbPath, obPath, subs, reqs, isWeb, posted>>

\* Without the web server: the net switch, fatal on an unknown name.
MainNet ==
    /\ pc = "net"
    /\ IF conf.net \in {"regtest", "test", "main"}
       THEN pc' = "start" /\ netParam' = conf.net
       ELSE pc' = "fatal" /\ UNCHANGED netParam
    /\ UNCHANGED <<conf, saved, acc, unlocks, done, vdbPath, obPath, subs, reqs, isWeb, posted>>

\* Passwords (from the config, or typed at the prompt when it has none),
\* the redeem, then the workers of the mode.  startObserver hands the
\* Observer conf.ConfigDBPath for last_height; startSigner opens both
\* wallets (fatal on failure) and NewSigner builds its address with
\* BtcNetParam, a nil dereference when no net was ever set.
MainStart ==
    /\ pc = "start"
    /\ \E op \in (IF conf.opwd = "" THEN Pwds ELSE {conf.opwd}),
          bp \in (IF conf.bpwd = "" THEN Pwds ELSE {conf.bpwd}) :
         LET signerUp == StartSigner(conf, op, bp)
         IN  CASE ~Decodes(conf.redeem) ->
                    pc' = "fatal" /\ UNCHANGED obPath
               [] Mode = "onlyob" ->
                    pc' = "running" /\ obPath' = conf.db
               [] ~signerUp ->
                    pc' = "fatal" /\ obPath' = IF Mode = "all" THEN conf.db ELSE obPath
               [] NewSignerPanics ->
                    pc' = "panic" /\ obPath' = IF Mode = "all" THEN conf.db ELSE obPath
               [] OTHER ->
                    pc' = "running" /\ obPath' = IF Mode = "all" THEN conf.db ELSE obPath
    /\ UNCHANGED <<conf, saved, netParam, acc, unlocks, done, vdbPath, subs, reqs, isWeb, posted>>

-----------------------------------------------------------------------------
(* The web handlers                                                        *)

Status ==
    /\ Serve
    /\ \E rpc \in {"", "r"}, ow \in FormOf(Files), op \in Blank(Pwds),
          bw \in Blank(Files), bp \in Blank(Pwds), nt \in Blank(NetNames),
          db \in Blank(DbPaths), rdm \in Blank(Redeems) :
         LET c == [conf EXCEPT !.wallet  = IF ow # Absent /\ rpc # "" THEN ow ELSE @,
                               !.opwd    = Update(@, op),
                               !.bwallet = Update(@, bw),
                               !.bpwd    = Update(@, bp),
                               !.net     = Update(@, nt),
                               !.db      = Update(@, db),
                               !.redeem  = Update(@, rdm)]
         IN  /\ conf' = c
             /\ netParam' = IF Given(nt) THEN NetOf(nt) ELSE netParam
             /\ acc' = GetORCPwd(c)
    /\ done' = TRUE /\ posted' = TRUE
    /\ UNCHANGED <<saved, unlocks, pc, vdbPath, obPath, subs>>

\* POST /init: HandleInit.  Each absent field returns at once, keeping the
\* fields set before it; BtcNetParam follows the (possibly unchanged)
\* configured net.
HandleInit ==
    /\ Serve
    /\ \E rpcSent \in BOOLEAN, ow \in FormOf(Files), op \in FormOf(Pwds),
          nt \in FormOf(NetNames), db \in FormOf(DbPaths) :
         LET c1 == [conf EXCEPT !.wallet = Update(@, ow)]
             c2 == [c1 EXCEPT !.opwd = Update(@, op)]
             c3 == [c2 EXCEPT !.net = Update(@, nt)]
             c4 == [c3 EXCEPT !.db = Update(@, db)]
         IN  CASE ~rpcSent     -> UNCHANGED <<conf, netParam, acc>>
               [] ow = Absent  -> UNCHANGED <<conf, netParam, acc>>
               [] op = Absent  -> conf' = c1 /\ UNCHANGED <<netParam, acc>>
               [] nt = Absent  -> conf' = c2 /\ UNCHANGED <<netParam, acc>>
               [] db = Absent  -> conf' = c3 /\ netParam' = NetOf(c3.net) /\ UNCHANGED acc
               [] OTHER        -> conf' = c4 /\ netParam' = NetOf(c4.net) /\ acc' = GetORCPwd(c4)
    /\ UNCHANGED <<saved, unlocks, done, pc, vdbPath, obPath, subs, posted>>

\* POST /geneprivk: HandleGenePrivk.  The passwords must match; the new key
\* is imported into the wallet at path under pwd (account.Open creates the
\* file), and the config then names it as the BTC key.  Imported into an
\* existing wallet, it is not the default account GetAccountByPassword
\* opens.  NewWIF dereferences
\* a nil BtcNetParam: the handler panics (recovered by gin) before writing.
HandleGenePrivk ==
    /\ Serve
    /\ \E pwd \in FormOf(Pwds), pwd2 \in FormOf(Pwds), path \in FormOf(Files) :
         IF /\ pwd # Absent /\ pwd2 # Absent /\ pwd = pwd2
            /\ GenePrivkOk(path)
         THEN /\ unlocks' = IF WalletExists(path) THEN unlocks
                              ELSE unlocks \cup {<<path, pwd>>}
              /\ conf' = [conf EXCEPT !.bpwd = pwd, !.bwallet = path]
         ELSE UNCHANGED <<unlocks, conf>>
    /\ UNCHANGED <<saved, netParam, acc, done, pc, vdbPath, obPath, subs, posted>>

\* POST /generdm: HandleGeneRedeem.  A multisig script of the posted keys
\* becomes the configured Redeem; a bad key list, or a nil BtcNetParam
\* (NewAddressPubKey panics), leaves the config as it was.
HandleGeneRedeem ==
    /\ Serve
    /\ \/ /\ GeneRedeemOk
          /\ \E r \in GoodRedeems : conf' = [conf EXCEPT !.redeem = r]
       \/ UNCHANGED conf
    /\ UNCHANGED <<saved, netParam, acc, unlocks, done, pc, vdbPath, obPath, subs, posted>>

\* BtcService.SetContract and SetParam: decode the configured redeem, then
\* RegisterRedeem / SetBtcTxParam signed by the service's current Acc.
\* With a nil Acc the SDK call panics (recovered by gin).
Submit(kind, via, a, c) ==
    IF Decodes(c.redeem) /\ a # NoAcc
    THEN subs' = subs \cup {[kind |-> kind, via |-> via, acc |-> a, wallet |-> c.wallet]}
    ELSE UNCHANGED subs

\* POST /set_contract, /set_param: the form is parsed (a missing field or
\* a bad number returns) and submitted with whatever account Acc holds.
HandleSetOf(kind) ==
    /\ Serve
    /\ \/ Submit(kind, "index", acc, conf)
       \/ UNCHANGED subs
    /\ UNCHANGED <<conf, saved, netParam, acc, unlocks, done, pc, vdbPath, obPath, posted>>

HandleSetContract == HandleSetOf("contract")
HandleSetParam    == HandleSetOf("param")

\* POST /set_contract_tool, /set_param_tool: the posted wallet and
\* password replace the configured ones, getORCPwd must succeed, then the
\* form is parsed and submitted as above.
HandleFuncSetOf(kind) ==
    /\ Serve
    /\ \E w \in FormOf(Files), op \in FormOf(Pwds) :
         LET c == [conf EXCEPT !.wallet = Update(@, w), !.opwd = Update(@, op)]
         IN  /\ conf' = c
             /\ acc' = GetORCPwd(c)
             /\ IF Opens(c.wallet, c.opwd)
                THEN \/ Submit(kind, "func", c.wallet, c)
                     \/ UNCHANGED subs
                ELSE UNCHANGED subs
    /\ UNCHANGED <<saved, netParam, unlocks, done, pc, vdbPath, obPath, posted>>

HandleFuncSetContract == HandleFuncSetOf("contract")
HandleFuncSetParam    == HandleFuncSetOf("param")

Next ==
    \/ MainLoad \/ MainWake \/ MainNet \/ MainStart
    \/ Status \/ HandleInit \/ HandleGenePrivk \/ HandleGeneRedeem
    \/ HandleSetContract \/ HandleSetParam
    \/ HandleFuncSetContract \/ HandleFuncSetParam

\* main runs until it blocks in waitToExit or exits.
Spec == Init /\ [][Next]_vars /\ WF_vars(MainLoad \/ MainWake \/ MainNet \/ MainStart)

-----------------------------------------------------------------------------
(* Properties                                                              *)

LedgerBesideCheckpoint == pc = "running" /\ obPath # "" => vdbPath = obPath
=============================================================================
