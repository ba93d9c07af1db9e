--------------------------- MODULE MCRewardPolicy ---------------------------
EXTENDS RewardPolicy, TLC

RequestSymmetry == Permutations(Requests)
MCCountries == {"DE", "FR"}
MCDefaultZones == [c \in {"DE"} |-> 1]
MCSlots == {[start |-> 3, end |-> 1]}
MCWindows0 == [c \in MCCountries |-> IF c = "DE" THEN {[start |-> 3, end |-> 1]} ELSE {}]
MCCdrs ==
  {[country |-> "DE", zone |-> None, start |-> 3, energy |-> 2, direction |-> "CHARGE"],
   [country |-> "FR", zone |-> None, start |-> 0, energy |-> 3, direction |-> "CHARGE"]}

\* Intake and policy share no state, so every reachable state of the two is a
\* pair of reachable states: it is enough to explore each from the other's
\* initial state.
MCInit == IntakeInit /\ Init
MCNext ==
  \/ Init /\ IntakeNext /\ UNCHANGED vars
  \/ IntakeInit /\ Next /\ UNCHANGED intakeVars
  \/ received = MaxDeliveries /\ UNCHANGED <<intakeVars, vars>>   \* no deadlock at the bound
MCSpec == MCInit /\ [][MCNext]_<<intakeVars, vars>>
-----------------------------------------------------------------------------
(* The charging records: variations of an OCPI and an OICP record.         *)

Utc == [sign |-> 1, hours |-> 0, minutes |-> 0]
East == [sign |-> 1, hours |-> 2, minutes |-> 0]
Date(y, m, d, h, offset) ==
  [form |-> "iso", year |-> y, month |-> m, day |-> d, hour |-> h, minute |-> 0, offset |-> offset]
Midnight == Date(2100, 3, 1, 0, Utc)
Dates ==
  {Midnight, Date(2100, 2, 28, 0, Utc), Date(2100, 2, 29, 0, Utc), Date(2100, 3, 1, 1, East),
   Date(2096, 2, 29, 0, Utc), [form |-> "serial"]}

Number(n) == [form |-> "number", thousandths |-> n]
Text(sign, parts) == [form |-> "text", sign |-> sign, parts |-> parts]
Group(n, len) == [val |-> n, len |-> len]
Energies ==
  {Number(1500), Number(-1500), Text(1, <<Group(1, 1), Group(5, 1)>>),
   Text(1, <<Group(11, 2), Group(40, 3), Group(483, 3)>>),
   Text(1, <<Group(11040, 5), Group(483, 3)>>), Text(1, <<Group(11, 2), Group(5, 1), Group(483, 3)>>),
   [form |-> "object"]}

\* Identifiers, chosen so that "a" + "b-c" and "a-b" + "c" share a legacy key.
A == <<"a">>
AB == <<"a", "-", "b">>
BC == <<"b", "-", "c">>
C == <<"c">>

Empty == [f \in WireFields |-> None]
Ocpi ==
  [Empty EXCEPT !["id"] = A, !["session_id"] = AB, !["party_id"] = C,
     !["cdr_token.contract_id"] = "o1", !["cdr_location.evse_id"] = A,
     !["start_date_time"] = Midnight, !["end_date_time"] = Midnight, !["total_energy"] = Number(1500)]
Oicp ==
  [Empty EXCEPT !["SessionID"] = A, !["ProviderID"] = C, !["Identification.EvcoID"] = "o1",
     !["EvseID"] = A, !["ChargingStart"] = Midnight, !["ChargingEnd"] = Midnight,
     !["ConsumedEnergy"] = Number(1500)]

MCRecords ==
  {[base EXCEPT !["id"] = x, !["session_id"] = y, !["SessionID"] = z, !["party_id"] = p] :
     base \in {Ocpi, Oicp}, x \in {None, A, AB}, y \in {None, A, C}, z \in {None, AB, Object},
     p \in {C, BC}}
  \cup
  {[Ocpi EXCEPT !["cdr_token.contract_id"] = w, !["ContractID"] = x,
      !["Identification.RemoteIdentification.EvcoID"] = y] :
     w \in {None, "o1", "o2", "null"}, x \in {None, "o1", "o2", "number"}, y \in {None, "o1", "padded"}}
  \cup
  {[Ocpi EXCEPT !["cdr_token.contract_id"] = w, !["ContractID"] = x, !["UID"] = "o3"] :
     w \in {None, "o1", "null"}, x \in {None, "o1", "o2"}}
  \cup
  {[Oicp EXCEPT !["timeZone"] = x, !["custom_data.time_zone"] = y, !["cdr_location.time_zone"] = z] :
     x \in {None, "z1", "Z1", "nowhere"}, y \in {None, "z1", "z2"}, z \in {None, Blank, "z2"}}
  \cup
  {[base EXCEPT !["start_date_time"] = x, !["end_date_time"] = y] :
     base \in {Ocpi}, x \in Dates, y \in Dates}
  \cup
  {[Ocpi EXCEPT !["total_energy"] = x, !["EnergyDirection"] = y] :
     x \in Energies, y \in {None, "CHARGE", "DISCHARGE", "charge"}}
  \cup
  {[Oicp EXCEPT !["credit"] = v, !["CorrectionReferenceID"] = w, !["OperationStatus"] = z] :
     v \in {None, "false", "true"}, w \in {None, "id"}, z \in {None, "credit"}}
  \cup
  {[Oicp EXCEPT !["credit"] = v, !["correction"] = x, !["Correction"] = y] :
     v \in {None, "false"}, x \in {None, Blank, "true", "false"}, y \in {None, "true"}}
MCZoneOf == [z \in {"z1", "Z1", "z2", "nowhere"} |->
               CASE z \in {"z1", "Z1"} -> "z1" [] z = "z2" -> "z2" [] OTHER -> None]
=============================================================================
