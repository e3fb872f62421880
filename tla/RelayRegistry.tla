--------------------------- MODULE RelayRegistry ---------------------------
(***************************************************************************)
(* The device registry of lattice-relay: which authentication token owns a *)
(* nine-digit device ID.  A claim is first come, first served; a relay     *)
(* started with a state file writes every new claim to disk before it      *)
(* acknowledges it, and reads the file back after a restart.               *)
(*                                                                         *)
(* Source: crates/lattice-remote/src/relay_server.rs.  A token stands for  *)
(* its SHA-256 hash: hash_token is injective for every purpose here.       *)
(***************************************************************************)
EXTENDS Naturals, FiniteSets

CONSTANTS
  Devices,        \* nine-digit device IDs
  Tokens,         \* authentication tokens
  None,           \* the absent value of every optional field
  MaxRegistry,    \* max_device_registry_entries
  Persist         \* TRUE iff the relay was given a state_path

ASSUME RegistryAssumption ==
  /\ None \notin Devices \cup Tokens
  /\ MaxRegistry \in Nat
  /\ Persist \in BOOLEAN

VARIABLES
  tokens,         \* RelayState.tokens
  disk,           \* the registry file behind state_path
  healthy,        \* RelayState.registry_healthy
  acked           \* history: the tokens each device was told Registered for

registryVars == <<tokens, disk, healthy, acked>>

Unclaimed == [d \in Devices |-> None]

RegistryTypeOK ==
  /\ tokens \in [Devices -> Tokens \cup {None}]
  /\ disk \in [Devices -> Tokens \cup {None}]
  /\ healthy \in BOOLEAN
  /\ acked \in [Devices -> SUBSET Tokens]

RegistryInit ==
  /\ tokens = Unclaimed
  /\ disk = Unclaimed
  /\ healthy = TRUE
  /\ acked = [d \in Devices |-> {}]

----------------------------------------------------------------------------
Claimed(reg) == {d \in Devices : reg[d] # None}

AnyClaimed(d, t) == healthy /\ tokens[d] # None   \* mutant: hash not compared

(* verify_only: what a joining agent must prove. *)
VerifyOnly(d, t) == healthy /\ tokens[d] = t

(* verify_or_claim, the Ok outcomes: the owner comes back, or a new device
   is claimed and save_tokens succeeds before the lock is released. *)
VerifyOwner(d, t) ==
  /\ VerifyOnly(d, t)
  /\ UNCHANGED registryVars

SaveNothing == UNCHANGED disk                    \* mutant: claim not written
SaveTokens == disk' = IF Persist THEN tokens' ELSE disk

ClaimNew(d, t) ==
  /\ healthy
  /\ tokens[d] = None
  /\ Cardinality(Claimed(tokens)) < MaxRegistry
  /\ tokens' = [tokens EXCEPT ![d] = t]
  /\ SaveTokens
  /\ UNCHANGED <<healthy, acked>>

VerifyOrClaim(d, t) == VerifyOwner(d, t) \/ ClaimNew(d, t)

(* verify_or_claim, the Err outcomes: Unavailable, AlreadyClaimed, Capacity,
   or a save that failed before its rename, which takes the entry back. *)
ClaimRefused(d, t) ==
  /\ \/ ~healthy
     \/ tokens[d] \notin {None, t}
     \/ tokens[d] = None /\ Cardinality(Claimed(tokens)) >= MaxRegistry
     \/ tokens[d] = None /\ Persist
  /\ UNCHANGED registryVars

(* run_connection answers Registered only after verify_or_claim said Ok. *)
Acknowledge(d, t) ==
  /\ acked' = [acked EXCEPT ![d] = @ \cup {t}]
  /\ UNCHANGED <<tokens, disk, healthy>>

(* load_tokens in a new process: the file is read back whole, or refused
   (unreadable, malformed, over capacity) and the relay serves no device. *)
Reload ==
  /\ \/ tokens' = disk /\ healthy' = TRUE
     \/ Persist /\ tokens' = Unclaimed /\ healthy' = FALSE
  /\ UNCHANGED <<disk, acked>>

----------------------------------------------------------------------------
(* No device was ever acknowledged to two tokens, and what was acknowledged
   is what the running relay enforces, unless it refused its own file.  This
   is verify_or_claim's promise across save failures and restarts. *)
AckedOwner ==
  \A d \in Devices : \A t \in acked[d] :
    /\ acked[d] = {t}
    /\ healthy => tokens[d] = t
=============================================================================
