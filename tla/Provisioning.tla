----------------------------- MODULE Provisioning -----------------------------
(***************************************************************************)
(* Where trust comes from: app/enroll.py and scripts/hsm_import.py over    *)
(* the registry of app/identity.py, the key files and the token of         *)
(* app/keystore.py, and devices that take their keys from those files.     *)
(*                                                                         *)
(* A command is the list of its writes and may be killed before any of     *)
(* them; a file that is written is emptied first.  One command runs at a   *)
(* time.  A key is known by its age: it is "current" while it belongs to   *)
(* the public key that the registry has, "old" once that was replaced.     *)
(***************************************************************************)
EXTENDS Naturals, Sequences, FiniteSets

CONSTANTS
    Identities,             \* devices and operators
    TokenBefore,            \* what the token holds under the label at first
    MaxCommands             \* bound on the commands

ASSUME ProvisioningAssumption ==
    TokenBefore \in {"none", "old"} /\ MaxCommands \in Nat

VARIABLES
    registry,               \* identities.json: [is, secret, devices]
    pub,                    \* identities/server.pub
    keyfile,                \* identities/<id>.key
    token,                  \* the secret in the token
    held,                   \* what each device was given: [key, pub]
    tool,                   \* the command: [cmd, hsm, wanted, todo, anew,
                            \*   secret, devices, left, carried]
    commands,               \* bound: commands begun
    interrupted,            \* history: an enrolment was killed and not made good
    mixed                   \* history: an identity was added while the token
                            \*   held another secret than the registry's

files         == <<registry, pub, keyfile, token, held>>
provisionVars == <<files, tool, commands, interrupted, mixed>>

NoTool == [cmd |-> "none", hsm |-> FALSE, wanted |-> {}, todo |-> <<>>,
           anew |-> FALSE, secret |-> "none", devices |-> {}, left |-> {},
           carried |-> "none"]

Absent == [is |-> "absent", secret |-> "none", devices |-> {}]

ProvisionInit ==
    /\ registry = Absent
    /\ pub = "none"
    /\ keyfile = [d \in Identities |-> "none"]
    /\ token = TokenBefore
    /\ held = [d \in Identities |-> [key |-> "none", pub |-> "none"]]
    /\ tool = NoTool
    /\ commands = 0
    /\ interrupted = FALSE /\ mixed = FALSE

-----------------------------------------------------------------------------
(* One write of the command that runs. *)

ToolIdle == tool.todo = <<>>

NextWrite(w) == ~ToolIdle /\ Head(tool.todo) = w

Written == [tool EXCEPT !.todo = Tail(@)]

(* The writes of each command: identities.json is emptied and then written. *)
Bootstrap     == <<"empty", "registry", "pub", "keys">>
EnrolMissing  == <<"empty", "registry", "keys">>

(* With a bug: the file is scrubbed before the token has the secret. *)
ImportScrubFirst(scrub) ==
    IF scrub THEN <<"empty", "registry", "destroy", "create">>
             ELSE <<"destroy", "create">>

Import(scrub) ==
    IF scrub THEN <<"destroy", "create", "empty", "registry">>
             ELSE <<"destroy", "create">>

(* A command begins: the identities the lists of enroll.py name, and whether
   SIS_HSM_* is set.  hsm_import does nothing where it is not. *)
Begin(cmd, hsm, wanted) ==
    /\ ToolIdle /\ commands < MaxCommands
    /\ cmd \in {"import", "scrub"} => hsm
    /\ tool' = [NoTool EXCEPT !.cmd = cmd, !.hsm = hsm, !.wanted = wanted,
                              !.todo = <<"load">>]
    /\ commands' = commands + 1
    /\ UNCHANGED <<files, interrupted, mixed>>

(* IdentityRegistry() fails on an empty file, and on a token without the
   secret; hsm_import goes on to read the file. *)
LoadFails(hsm) ==
    \/ registry.is = "empty"
    \/ registry.is = "whole" /\ hsm /\ token = "none"

LoadedSecret(hsm) == IF hsm THEN token ELSE registry.secret

(* With a bug: everything wanted is enrolled again. *)
MissingAll == tool.wanted

Missing == tool.wanted \ registry.devices

Load ==
    /\ NextWrite("load")
    /\ LET imports == tool.cmd \in {"import", "scrub"}
           adds    == tool.cmd = "enroll" /\ registry.is = "whole"
           fails   == LoadFails(tool.hsm) \/ (imports /\ registry.is = "absent")
           proceed(writes, anew, secret, left) ==
               [tool EXCEPT !.todo = writes, !.anew = anew, !.secret = secret,
                            !.left = left, !.devices = registry.devices \union left,
                            !.carried = registry.secret]
       IN
       /\ tool' = CASE fails   -> [tool EXCEPT !.todo = <<"died">>]
                    [] ~fails /\ imports ->
                          proceed(IF registry.secret = "none" THEN <<>>
                                  ELSE Import(tool.cmd = "scrub"), FALSE, "none", {})
                    [] ~fails /\ adds ->
                          proceed(IF Missing = {} THEN <<>> ELSE EnrolMissing, FALSE,
                                  LoadedSecret(tool.hsm), Missing)
                    [] OTHER -> proceed(Bootstrap, TRUE, "current", tool.wanted)
       /\ mixed' = (mixed \/ (~fails /\ adds /\ Missing # {} /\ tool.hsm /\ token = "old"))
    /\ UNCHANGED <<files, commands, interrupted>>

(* write_text of save. *)
EmptyRegistry ==
    /\ NextWrite("empty")
    /\ registry' = [registry EXCEPT !.is = "empty"]
    /\ tool' = Written
    /\ UNCHANGED <<pub, keyfile, token, held, commands, interrupted, mixed>>

Aged(age, renewed) == IF renewed /\ age = "current" THEN "old" ELSE age

(* The keys that belonged to what the registry had before are old now. *)
WriteRegistry ==
    /\ NextWrite("registry")
    /\ registry' = [is |-> "whole", secret |-> tool.secret, devices |-> tool.devices]
    /\ pub' = Aged(pub, tool.anew)
    /\ token' = Aged(token, tool.anew)
    /\ keyfile' = [d \in Identities |-> Aged(keyfile[d], d \in tool.left)]
    /\ held' = [d \in Identities |-> [key |-> Aged(held[d].key, d \in tool.left),
                                      pub |-> Aged(held[d].pub, tool.anew)]]
    /\ tool' = Written
    /\ UNCHANGED <<commands, interrupted, mixed>>

WritePub ==
    /\ NextWrite("pub")
    /\ pub' = "current"
    /\ tool' = Written
    /\ UNCHANGED <<registry, keyfile, token, held, commands, interrupted, mixed>>

(* After the last one every key is of one making, if all were made. *)
WriteKey(d) ==
    /\ NextWrite("keys") /\ d \in tool.left
    /\ keyfile' = [keyfile EXCEPT ![d] = "current"]
    /\ IF tool.left = {d}
       THEN /\ tool' = Written
            /\ interrupted' = (interrupted /\ ~(tool.anew /\ tool.devices \subseteq tool.wanted))
       ELSE /\ tool' = [tool EXCEPT !.left = @ \ {d}]
            /\ UNCHANGED interrupted
    /\ UNCHANGED <<registry, pub, token, held, commands, mixed>>

(* store_server_secret destroys what is there and creates it anew. *)
DestroySecret ==
    /\ NextWrite("destroy")
    /\ token' = "none"
    /\ tool' = Written
    /\ UNCHANGED <<registry, pub, keyfile, held, commands, interrupted, mixed>>

CreateSecret ==
    /\ NextWrite("create")
    /\ token' = tool.carried
    /\ tool' = Written
    /\ UNCHANGED <<registry, pub, keyfile, held, commands, interrupted, mixed>>

Exit ==
    /\ NextWrite("died")
    /\ tool' = Written
    /\ UNCHANGED <<files, commands, interrupted, mixed>>

(* The command is killed; a file it was about to write may be left empty. *)
Kill ==
    /\ ~ToolIdle /\ Head(tool.todo) \notin {"load", "died"}
    /\ pub' \in {pub} \union (IF NextWrite("pub") THEN {"empty"} ELSE {})
    /\ keyfile' \in {keyfile} \union
                    {[keyfile EXCEPT ![d] = "empty"] :
                        d \in IF NextWrite("keys") THEN tool.left ELSE {}}
    /\ tool' = [tool EXCEPT !.todo = <<>>]
    /\ interrupted' = (interrupted \/ tool.cmd \in {"enroll", "force"})
    /\ UNCHANGED <<registry, token, held, commands, mixed>>

(* A board is flashed with what emit_firmware_keys.py finds, or a node that
   starts reads it. *)
Equip(d) ==
    /\ keyfile[d] # "none" /\ pub # "none"
    /\ held' = [held EXCEPT ![d] = [key |-> keyfile[d], pub |-> pub]]
    /\ UNCHANGED <<registry, pub, keyfile, token, tool, commands, interrupted, mixed>>

Provision ==
    \/ \E hsm \in BOOLEAN :
          \/ \E wanted \in SUBSET Identities \ {{}}, cmd \in {"enroll", "force"} :
                Begin(cmd, hsm, wanted)
          \/ \E cmd \in {"import", "scrub"} : Begin(cmd, hsm, {})
    \/ Load \/ EmptyRegistry \/ WriteRegistry \/ WritePub
    \/ DestroySecret \/ CreateSecret \/ Exit \/ Kill
    \/ \E d \in Identities : WriteKey(d) \/ Equip(d)

ProvisionSpec == ProvisionInit /\ [][Provision]_provisionVars

-----------------------------------------------------------------------------
(* Properties. *)

Settled == ToolIdle /\ registry.is = "whole"

(* "Adding an identity must not cost every existing one its key" (enroll.py:32):
   a device in the field only loses its key to --force, whatever is killed. *)
FieldKeysKept ==
    [][\A d \in Identities :
          held[d].key = "current" /\ held'[d].key # "current" => tool.cmd = "force"]_provisionVars

(* "Each device now holds its own signing key and the server's public key"
   (enroll.py:70): the files of every identity that the registry has match it. *)
FilesMatch ==
    pub = "current" /\ \A d \in registry.devices : keyfile[d] = "current"

(* Whatever commands were run, every public key the registry has is matched by
   a secret: the devices' in their files, unless an enrolment was killed and not
   all made anew since; the server's in the registry or in the token, wherever
   an import was killed, unless an identity was added while the token held
   another secret: then the registry was saved with that. *)
KeysInPlace ==
    Settled =>
        /\ ~interrupted => FilesMatch
        /\ ~mixed => registry.secret = "current" \/ token = "current"

(* "make hsm-import: copy it into the HSM" (README.md:229), "importing is always
   file -> HSM" (hsm_import.py:28): an import that finds a registry with a secret
   does not die, if no enrolment was killed. *)
ImportRuns ==
    NextWrite("died") /\ tool.cmd \in {"import", "scrub"} /\ ~interrupted =>
        registry.is # "whole" \/ registry.secret = "none"
===============================================================================
