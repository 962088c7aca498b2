-------------------------- MODULE ValidatorConfig --------------------------
(***************************************************************************)
(* Tempo's validator registry (V2): an append-only list of records, three  *)
(* indexes over it (public key, address, active ingress endpoints) and the *)
(* list of active records with back pointers.  Its first records are       *)
(* migrated from the V1 registry, last one first, before it is             *)
(* initialised; deactivation is allowed before that.  Indexes count from   *)
(* one and 0 is "none".                                                    *)
(***************************************************************************)
EXTENDS Integers, FiniteSets, Sequences

CONSTANTS PublicKeys, ValidatorAddresses, Ingresses,
          V1Lists,      \* the V1 registries to migrate from
          MaxRecords    \* bound on the length of the list

ASSUME ValidatorAssumption ==
    /\ V1Lists \subseteq Seq([key : PublicKeys, addr : ValidatorAddresses,
                             ingress : Ingresses, active : BOOLEAN, valid : BOOLEAN])
    /\ MaxRecords \in Nat

VARIABLES v1, initialized, skipped, registry

registryVars == <<v1, initialized, skipped, registry>>

\* registry: the records, active_indices, and the three mappings.
EmptyRegistry ==
    [records |-> <<>>, active |-> <<>>,
     byKey |-> [k \in PublicKeys |-> 0],
     byAddress |-> [a \in ValidatorAddresses |-> 0],
     ingresses |-> {}]

IsActive(reg, i) == ~reg.records[i].off

\* get_active_validator
ActiveRecords == {i \in DOMAIN registry.records : IsActive(registry, i)}

NewAddress(a) ==
    LET i == registry.byAddress[a] IN i # 0 => ~IsActive(registry, i)

NewKey(k) == registry.byKey[k] = 0

AppendValidator(reg, k, a, ip, off) ==
    LET i == Len(reg.records) + 1
    IN  [reg EXCEPT
           !.records = Append(@, [key |-> k, addr |-> a, ingress |-> ip, off |-> off,
                                  activeIdx |-> IF off THEN 0
                                                ELSE Len(reg.active) + 1]),
           !.active = IF off THEN @ ELSE Append(@, i),
           !.byKey[k] = i,
           !.byAddress[a] = i]

RegisterValidator(k, a, ip) ==
    /\ initialized /\ Len(registry.records) < MaxRecords
    /\ NewKey(k) /\ NewAddress(a) /\ ip \notin registry.ingresses
    /\ registry' = AppendValidator(
                      [registry EXCEPT !.ingresses = @ \cup {ip}], k, a, ip, FALSE)
    /\ UNCHANGED <<v1, initialized, skipped>>

\* Mutant: the back pointer of the record that moves is not updated.
SwapAndPopForgets(reg, i) ==
    LET pos == reg.records[i].activeIdx
        moved == reg.active[Len(reg.active)]
        swapped == [reg.active EXCEPT ![pos] = moved]
    IN  [reg EXCEPT !.active = SubSeq(swapped, 1, Len(swapped) - 1),
                    !.records[i].activeIdx = 0]

\* Remove a record from the active list by moving the last one to its place.
SwapAndPop(reg, i) ==
    LET pos == reg.records[i].activeIdx
        moved == reg.active[Len(reg.active)]
        swapped == [reg.active EXCEPT ![pos] = moved]
        marked == [reg EXCEPT !.records[moved].activeIdx = pos]
    IN  [marked EXCEPT !.active = SubSeq(swapped, 1, Len(swapped) - 1),
                       !.records[i].activeIdx = 0]

DeactivateValidator(i) ==
    /\ registry' = SwapAndPop(
                      [registry EXCEPT !.ingresses = @ \ {registry.records[i].ingress},
                                       !.records[i].off = TRUE], i)
    /\ UNCHANGED <<v1, initialized, skipped>>

\* Mutant: the new endpoint is recorded but the old one stays taken.
TrackIngressAdds(reg, old, new) == [reg EXCEPT !.ingresses = @ \cup {new}]

\* update_ingress_ip_tracking
TrackIngress(reg, old, new) ==
    [reg EXCEPT !.ingresses = (@ \ {old}) \cup {new}]

\* Mutant: the key that was rotated out still leads to the rotated record.
RotateValidatorOldKey(i, k, ip) ==
    LET old == registry.records[i]
        reg == TrackIngress(registry, old.ingress, ip)
    IN  /\ initialized /\ Len(registry.records) < MaxRecords
        /\ NewKey(k) /\ ip \notin registry.ingresses
        /\ registry' = [reg EXCEPT
              !.records = Append([@ EXCEPT ![i].key = k, ![i].ingress = ip],
                                 [old EXCEPT !.off = TRUE, !.activeIdx = 0]),
              !.byKey = [@ EXCEPT ![k] = i]]
        /\ UNCHANGED <<v1, initialized, skipped>>

\* The record takes the new identity in place; a deactivated snapshot of the
\* old identity is appended, and the old key leads to the snapshot.
RotateValidator(i, k, ip) ==
    LET old == registry.records[i]
        reg == TrackIngress(registry, old.ingress, ip)
    IN  /\ initialized /\ Len(registry.records) < MaxRecords
        /\ NewKey(k) /\ ip \notin registry.ingresses
        /\ registry' = [reg EXCEPT
              !.records = Append([@ EXCEPT ![i].key = k, ![i].ingress = ip],
                                 [old EXCEPT !.off = TRUE, !.activeIdx = 0]),
              !.byKey = [@ EXCEPT ![old.key] = Len(registry.records) + 1, ![k] = i]]
        /\ UNCHANGED <<v1, initialized, skipped>>

SetIpAddresses(i, ip) ==
    LET old == registry.records[i].ingress
    IN  /\ initialized
        /\ ip = old \/ ip \notin registry.ingresses
        /\ registry' = [TrackIngress(registry, old, ip) EXCEPT
                           !.records[i].ingress = ip]
        /\ UNCHANGED <<v1, initialized, skipped>>

TransferValidatorOwnership(i, a) ==
    LET old == registry.records[i].addr
    IN  /\ initialized /\ NewAddress(a)
        /\ registry' = [registry EXCEPT
              !.records[i].addr = a,
              !.byAddress = [@ EXCEPT ![old] = 0, ![a] = i]]
        /\ UNCHANGED <<v1, initialized, skipped>>

----------------------------------------------------------------------------
(* Migration from V1 *)

Processed == Len(registry.records) + skipped

\* An entry is skipped when its key or outbound address is not valid, its key
\* is taken, or it is active and its endpoint is taken.
Skips(val) ==
    \/ ~val.valid
    \/ ~NewKey(val.key)
    \/ val.active /\ val.ingress \in registry.ingresses

\* The address check is an error, not a skip, and comes before the endpoint's.
MigrateValidator ==
    /\ ~initialized /\ Processed < Len(v1)
    /\ LET val == v1[Len(v1) - Processed]
           reg == AppendValidator(registry, val.key, val.addr, val.ingress, ~val.active)
       IN  /\ ~val.valid \/ ~NewKey(val.key) \/ NewAddress(val.addr)
           /\ IF Skips(val)
              THEN skipped' = skipped + 1 /\ UNCHANGED registry
              ELSE /\ registry' = [reg EXCEPT !.ingresses =
                                     IF val.active THEN @ \cup {val.ingress} ELSE @]
                   /\ UNCHANGED skipped
    /\ UNCHANGED <<v1, initialized>>

InitializeIfMigrated ==
    /\ ~initialized /\ v1 # <<>> /\ Processed >= Len(v1)
    /\ initialized' = TRUE
    /\ UNCHANGED <<v1, skipped, registry>>

ValidatorInit ==
    /\ v1 \in V1Lists /\ initialized = FALSE /\ skipped = 0
    /\ registry = EmptyRegistry

ValidatorNext ==
    \/ MigrateValidator
    \/ InitializeIfMigrated
    \/ \E k \in PublicKeys, a \in ValidatorAddresses, ip \in Ingresses :
          RegisterValidator(k, a, ip)
    \/ \E i \in ActiveRecords :
          \/ DeactivateValidator(i)
          \/ \E k \in PublicKeys, ip \in Ingresses : RotateValidator(i, k, ip)
          \/ \E ip \in Ingresses : SetIpAddresses(i, ip)
          \/ \E a \in ValidatorAddresses : TransferValidatorOwnership(i, a)

ValidatorSpec == ValidatorInit /\ [][ValidatorNext]_registryVars

----------------------------------------------------------------------------
(* Properties *)

\* active_indices lists every record that is not deactivated, once, and each
\* record's active_idx is its place there, 0 when deactivated, through
\* swap-and-pop, rotation and migration.
ActiveListExact ==
    LET r == registry.records
    IN  /\ \A p \in DOMAIN registry.active :
              /\ IsActive(registry, registry.active[p])
              /\ r[registry.active[p]].activeIdx = p
        /\ \A i \in DOMAIN r :
              IF r[i].off THEN r[i].activeIdx = 0
              ELSE /\ r[i].activeIdx \in DOMAIN registry.active
                   /\ registry.active[r[i].activeIdx] = i

\* Every key ever registered leads to the one record that holds it, and every
\* active validator's address to its record (validator_by_public_key,
\* validator_by_address).
LookupsExact ==
    LET r == registry.records
    IN  /\ \A i \in DOMAIN r : registry.byKey[r[i].key] = i
        /\ \A k \in PublicKeys : registry.byKey[k] # 0 => r[registry.byKey[k]].key = k
        /\ \A i \in ActiveRecords : registry.byAddress[r[i].addr] = i
        /\ \A a \in ValidatorAddresses :
              registry.byAddress[a] # 0 => r[registry.byAddress[a]].addr = a

\* active_ingress_ips holds exactly the endpoints of the active validators, no
\* two of which share one: a freed endpoint can be taken again.
IngressesExact ==
    LET r == registry.records
    IN  /\ registry.ingresses = {r[i].ingress : i \in ActiveRecords}
        /\ \A i, j \in ActiveRecords : r[i].ingress = r[j].ingress => i = j

\* The registry's list and its three indexes say the same
\* (deactivate_validator, rotate_validator, migrate_validator).
RegistryExact == ActiveListExact /\ LookupsExact /\ IngressesExact

ValidatorRecord ==
    [key : PublicKeys, addr : ValidatorAddresses, ingress : Ingresses, off : BOOLEAN,
     activeIdx : Nat]

Registries ==
    [records : Seq(ValidatorRecord), active : Seq(Nat),
     byKey : [PublicKeys -> Nat], byAddress : [ValidatorAddresses -> Nat],
     ingresses : SUBSET Ingresses]

\* The same of a registry's parts: records r, active list A, lookups K and D,
\* endpoints I.  Every index is that of a record.
Agree(r, A, K, D, I) ==
    /\ \A p \in DOMAIN A :
          A[p] \in DOMAIN r /\ ~r[A[p]].off /\ r[A[p]].activeIdx = p
    /\ \A i \in DOMAIN r :
          /\ K[r[i].key] = i
          /\ r[i].off => r[i].activeIdx = 0
          /\ ~r[i].off => /\ r[i].activeIdx \in DOMAIN A /\ A[r[i].activeIdx] = i
                          /\ D[r[i].addr] = i /\ r[i].ingress \in I
    /\ \A k \in PublicKeys : K[k] # 0 => K[k] \in DOMAIN r /\ r[K[k]].key = k
    /\ \A a \in ValidatorAddresses : D[a] # 0 => D[a] \in DOMAIN r /\ r[D[a]].addr = a
    /\ \A ip \in I : \E i \in DOMAIN r : ~r[i].off /\ r[i].ingress = ip
    /\ \A i, j \in DOMAIN r :
          ~r[i].off /\ ~r[j].off /\ r[i].ingress = r[j].ingress => i = j

\* What the steps of the registry preserve.
RegistryInv ==
    /\ v1 \in V1Lists /\ initialized \in BOOLEAN /\ skipped \in Nat
    /\ registry \in Registries
    /\ Agree(registry.records, registry.active, registry.byKey, registry.byAddress,
             registry.ingresses)
============================================================================
