----------------------------- MODULE MCSessions -----------------------------
(* One user with one device, one request at a time, beside one administrator. *)
EXTENDS Sessions

CONSTANTS client, admin, phone

MCClients == {client}
MCAdmins == {admin}
MCDevices == {phone}
MCAsked == {"ACTIVE", "SUSPENDED", "BLOCKED", "RESET"}

Left(row) == Cardinality({n \in DOMAIN row : row[n].state = "absent"})

(* There are two sessions to come and no code, one of each, or two codes. *)
MCInit == Init /\ Left(session) + Left(code) = 2

MCSpec == MCInit /\ [][Next]_vars
=============================================================================
