------------------------------ MODULE KeyFiles ------------------------------
(***************************************************************************)
(* The key files of a node, as the tool (tincctl/src/lib.rs: init,         *)
(* generate-keys, fsck, sign, verify, export, import) writes and checks    *)
(* them and the daemon (tincd/src/cli.rs) reads them: a private key file   *)
(* and the host file, to which new keys are appended, and the copy of the  *)
(* host file that a peer has imported.                                     *)
(***************************************************************************)
EXTENDS Integers, Sequences, SequencesExt, FiniteSets, Removal

CONSTANTS
    MaxKeys,        \* how many keys are made
    MaxSteps,       \* how many commands are given
    KeyCuts,        \* how many commands are interrupted half-way
    HandChanges     \* how often the administrator changes a file by hand

VARIABLES
    conf,           \* whether there is a tinc.conf with a name
    private,        \* the private keys in ed25519_key.priv and rsa_key.priv
    host,           \* the lines and keys of the host file
    modes,          \* the files whose modes are wrong
    copy,           \* the host file at the peer
    did,            \* the last command, with what it complained of or the kinds of keys it made,
                    \*   and of fsck whether it was to repair, and the keys peers read before
    used            \* how much of each bound was used

keyFileVars == <<conf, private, host, modes, copy, did, used>>

(* The host file holds lines with a key, keys between their first and last *)
(* lines (a "pem"), and other lines.                                       *)
Item(form, kind, key) == [form |-> form, kind |-> kind, key |-> key]
NoKey == 0
Other == Item("other", "none", NoKey)
Kinds == {"ed", "rsa"}
Bounds == [keys |-> MaxKeys, steps |-> MaxSteps, cuts |-> KeyCuts, changes |-> HandChanges]
Use(bound, n) == /\ used[bound] + n <= Bounds[bound]
                 /\ used' = [used EXCEPT ![bound] = @ + n]

FirstKey(items, form, kind) ==
    LET found == {i \in DOMAIN items : items[i].form = form /\ items[i].kind = kind}
    IN  IF found = {} THEN NoKey ELSE items[Min(found)].key

-----------------------------------------------------------------------------
(* read_optional_private_key, read_rsa_private_key of the daemon and       *)
(* read_private_ed25519_key of the tool: the first key of the file.        *)
PrivateKey(kind) == IF private[kind] = <<>> THEN NoKey ELSE Head(private[kind])

(* read_peer_public_key, read_peer_rsa_public_key: the variable, or else   *)
(* the first key in the host file.                                         *)
PublicKey(items, kind) ==
    IF FirstKey(items, "line", kind) # NoKey THEN FirstKey(items, "line", kind) ELSE FirstKey(items, "pem", kind)

(* read_host_ed25519_public_key, for `tinc verify`: the variable only.     *)
VerifyKey(items) == FirstKey(items, "line", "ed")

-----------------------------------------------------------------------------
(* fsck reads the RSA key file as one key, whatever it holds, and finds a  *)
(* key inside the host file only when some line of it is an entry.         *)
FsckPrivate(kind) == IF kind = "rsa" /\ Len(private[kind]) # 1 THEN NoKey ELSE PrivateKey(kind)
HasEntries(items) == \E i \in DOMAIN items : items[i].form \in {"line", "other"}
FsckPublicAnywhere(kind) ==
    IF \E i \in DOMAIN host : host[i] = Item("line", kind, FsckPrivate(kind)) THEN FsckPrivate(kind)
    ELSE IF FirstKey(host, "line", kind) # NoKey THEN FirstKey(host, "line", kind)
    ELSE IF HasEntries(host) THEN FirstKey(host, "pem", kind) ELSE NoKey
FsckPublic(kind) ==
    IF FirstKey(host, "line", kind) # NoKey THEN FirstKey(host, "line", kind)
    ELSE IF HasEntries(host) THEN FirstKey(host, "pem", kind) ELSE NoKey

(* check_fsck_ed25519_public_key, check_fsck_rsa_public_key.               *)
Complains(kind) ==
    IF FsckPrivate(kind) # NoKey THEN FsckPublic(kind) # FsckPrivate(kind)
    ELSE kind = "ed" => FsckPublic(kind) # NoKey
Fixes(kind) == FsckPrivate(kind) # NoKey /\ Complains(kind)

Did(command, about) == did' = [command |-> command, about |-> about]
OneStep == Use("steps", 1)

(* run_fsck_command: RSA first, then Ed25519, then the modes of scripts.   *)
Fsck(force) ==
    /\ conf
    /\ OneStep
    /\ LET found == {k \in Kinds : FsckPrivate(k) # NoKey}
           fixed == IF force THEN {k \in Kinds : Fixes(k)} ELSE {}
           pem(k) == IF k \in fixed THEN <<Item("pem", k, FsckPrivate(k))>> ELSE <<>>
       IN  /\ did' = [command |-> "fsck", force |-> force,
                      about |-> IF found = {} THEN {"no private key"}
                                ELSE {k \in Kinds : Complains(k)}
                                         \union (modes \intersect (found \union {"script"})),
                      public |-> [k \in Kinds |-> PublicKey(host, k)]]
           /\ host' = host \o pem("rsa") \o pem("ed")
           /\ modes' = IF force THEN modes \ (found \union {"script"}) ELSE modes
    /\ UNCHANGED <<conf, private, copy>>

-----------------------------------------------------------------------------
(* write_rsa_keypair, write_ed25519_keypair: both files are appended to,   *)
(* the private one first; `done` says how far the command came.            *)
PublicItem(kind, key) == IF kind = "ed" THEN Item("line", kind, key) ELSE Item("pem", kind, key)
Position(kinds, k) == CHOOSE i \in DOMAIN kinds : kinds[i] = k
Written(kinds, done, more) ==
    LET public == [i \in 1 .. done \div 2 |-> PublicItem(kinds[i], used.keys + i)]
    IN  /\ private' = [k \in Kinds |->
              IF k \in ToSet(kinds) /\ 2 * Position(kinds, k) - 1 <= done
              THEN Append(private[k], used.keys + Position(kinds, k)) ELSE private[k]]
        /\ host' = host \o (IF conf' THEN public ELSE <<>>) \o more

Makes(kinds, done) ==
    /\ done < 2 * Len(kinds) => used.cuts < KeyCuts
    /\ used.keys + Len(kinds) <= MaxKeys
    /\ used.steps < MaxSteps
    /\ used' = [used EXCEPT !.keys = @ + Len(kinds), !.steps = @ + 1,
                            !.cuts = IF done < 2 * Len(kinds) THEN @ + 1 ELSE @]

(* run_init_command: refused when there is a tinc.conf, which it writes    *)
(* first; when the port is taken another one is added to the host file.    *)
InitCommand(done, taken) ==
    /\ ~conf
    /\ taken => done = 4
    /\ conf' = TRUE
    /\ Makes(<<"rsa", "ed">>, done)
    /\ Written(<<"rsa", "ed">>, done, IF taken THEN <<Other>> ELSE <<>>)
    /\ Did(IF done = 4 THEN "init" ELSE "cut", {"rsa", "ed"})
    /\ UNCHANGED <<modes, copy>>

(* run_generate_keys_command and its two halves; without a name the public *)
(* key goes into a file of its own.                                        *)
Generate(kinds, done) ==
    /\ conf' = conf
    /\ Makes(kinds, done)
    /\ Written(kinds, done, <<>>)
    /\ Did(IF done = 2 * Len(kinds) THEN "generate" ELSE "cut", ToSet(kinds))
    /\ UNCHANGED <<modes, copy>>

(* run_export_command at this node and run_import_command at the peer,     *)
(* which replaces a host file it has only when forced.                     *)
Exchange(force) ==
    /\ conf /\ host # <<>>
    /\ copy = <<>> \/ force
    /\ OneStep
    /\ copy' = host
    /\ Did("exchange", {})
    /\ UNCHANGED <<conf, private, host, modes>>

(* By hand: a private key file is removed, the public key's line is        *)
(* deleted (`tinc del`), a line is added, a mode is changed.               *)
ByHand ==
    /\ Use("changes", 1)
    /\ \/ \E k \in Kinds : private[k] # <<>> /\ private' = [private EXCEPT ![k] = <<>>] /\ UNCHANGED <<host, modes>>
       \/ /\ host' = AllBut(host, {i \in ToSet(host) : i.form = "line"}) /\ host' # host
          /\ UNCHANGED <<private, modes>>
       \/ Other \notin ToSet(host) /\ host' = Append(host, Other) /\ UNCHANGED <<private, modes>>
       \/ \E f \in (Kinds \union {"script"}) \ modes : modes' = modes \union {f} /\ UNCHANGED <<private, host>>
    /\ Did("hand", {})
    /\ UNCHANGED <<conf, copy>>

KeyFilesInit ==
    /\ conf = FALSE
    /\ private = [k \in Kinds |-> <<>>]
    /\ host = <<>>
    /\ modes = {}
    /\ copy = <<>>
    /\ did = [command |-> "none", about |-> {}]
    /\ used = [b \in DOMAIN Bounds |-> 0]

KeyFilesNext ==
    \/ \E force \in BOOLEAN : Fsck(force) \/ Exchange(force)
    \/ \E done \in 0 .. 4 : (\E taken \in BOOLEAN : InitCommand(done, taken)) \/ Generate(<<"rsa", "ed">>, done)
    \/ \E kind \in Kinds, done \in 0 .. 2 : Generate(<<kind>>, done)
    \/ ByHand

KeyFilesSpec == KeyFilesInit /\ [][KeyFilesNext]_keyFileVars

-----------------------------------------------------------------------------
(* When fsck has nothing to complain of, the keys are those that will be   *)
(* used: the private key the daemon reads is the one whose public half a   *)
(* peer reads from the host file, and what `tinc sign` signs, `tinc        *)
(* verify` accepts or has no key for.  With --force it supplies whatever   *)
(* public key peers lacked, if it can read the private one, and takes no   *)
(* key from them that they read before; a key that does not match stays    *)
(* in front of the one it appends, and peers go on reading it              *)
(* (maybe_fix_rsa_public_key, maybe_fix_ed25519_public_key).               *)
FsckIsHonest ==
    did.command = "fsck" =>
        /\ did.about = {} => /\ \A k \in Kinds : PrivateKey(k) = PublicKey(host, k)
                            /\ VerifyKey(host) \in {NoKey, PrivateKey("ed")}
        /\ did.force => \A k \in Kinds :
              PublicKey(host, k) = IF did.public[k] # NoKey THEN did.public[k] ELSE FsckPrivate(k)

(* After init or generate-keys the private key that is read is the one     *)
(* whose public half is read from the host file (as the tests of the tool  *)
(* have it).                                                               *)
GeneratedPairAgrees ==
    did.command \in {"init", "generate"} /\ conf =>
        \A k \in did.about : PrivateKey(k) = PublicKey(host, k)
=============================================================================
