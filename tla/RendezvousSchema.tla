-------------------------- MODULE RendezvousSchema --------------------------
(***************************************************************************)
(* The message types of gen/rendezvous.ts,                                 *)
(* the rendezvous protocol: what the client and the ID server and          *)
(* relay send each other                                                   *)
(*                                                                         *)
(* A type is the table of the fields its encode writes and its decode and  *)
(* fromPartial read; the loops that interpret a table are in WireCodec.    *)
(***************************************************************************)
EXTENDS FieldKinds

RegisterPeer == [id |-> Bin(1), serial |-> Var(2)]
RegisterPeerResponse == [request_pk |-> Var(2)]
PunchHoleRequest ==
    [id |-> Bin(1), nat_type |-> Var(2), licence_key |-> Bin(3),
     conn_type |-> Var(4), token |-> Bin(5), version |-> Bin(6),
     udp_port |-> Var(7), force_relay |-> Var(8), upnp_port |-> Var(9),
     socket_addr_v6 |-> Bin(10), switch_code |-> Bin(11)]
ControlPermissions == [permissions |-> Big(1)]
ControlledContext == [conn_audit_ref |-> Bin(1)]
PunchHole ==
    [socket_addr |-> Bin(1), relay_server |-> Bin(2), nat_type |-> Var(3),
     udp_port |-> Var(4), force_relay |-> Var(5), upnp_port |-> Var(6),
     socket_addr_v6 |-> Bin(7),
     control_permissions |-> Sub(8, "ControlPermissions"),
     controlled_context |-> Sub(9, "ControlledContext")]
TestNatRequest == [serial |-> Var(1)]
TestNatResponse == [port |-> Var(1), cu |-> Sub(2, "ConfigUpdate")]
PunchHoleSent ==
    [socket_addr |-> Bin(1), id |-> Bin(2), relay_server |-> Bin(3),
     nat_type |-> Var(4), version |-> Bin(5), upnp_port |-> Var(6),
     socket_addr_v6 |-> Bin(7)]
RegisterPk ==
    [id |-> Bin(1), uuid |-> Bin(2), pk |-> Bin(3), old_id |-> Bin(4),
     no_register_device |-> Var(5)]
RegisterPkResponse == [result |-> Var(1), keep_alive |-> Var(2)]
PunchHoleResponse ==
    [socket_addr |-> Bin(1), pk |-> Bin(2), failure |-> Var(3),
     relay_server |-> Bin(4), nat_type |-> OneVar(5), is_local |-> OneVar(6),
     other_failure |-> Bin(7), feedback |-> Var(8), is_udp |-> Var(9),
     upnp_port |-> Var(10), socket_addr_v6 |-> Bin(11)]
ConfigUpdate == [serial |-> Var(1), rendezvous_servers |-> Bins(2)]
RequestRelay ==
    [id |-> Bin(1), uuid |-> Bin(2), socket_addr |-> Bin(3),
     relay_server |-> Bin(4), secure |-> Var(5), licence_key |-> Bin(6),
     conn_type |-> Var(7), token |-> Bin(8),
     control_permissions |-> Sub(9, "ControlPermissions"),
     controlled_context |-> Sub(10, "ControlledContext"), switch_code |-> Bin(11)]
RelayResponse ==
    [socket_addr |-> Bin(1), uuid |-> Bin(2), relay_server |-> Bin(3),
     id |-> OneBin(4), pk |-> OneBin(5), refuse_reason |-> Bin(6),
     version |-> Bin(7), feedback |-> Var(9), socket_addr_v6 |-> Bin(10),
     upnp_port |-> Var(11)]
SoftwareUpdate == [url |-> Bin(1)]
FetchLocalAddr ==
    [socket_addr |-> Bin(1), relay_server |-> Bin(2), socket_addr_v6 |-> Bin(3),
     control_permissions |-> Sub(4, "ControlPermissions"),
     controlled_context |-> Sub(5, "ControlledContext")]
LocalAddr ==
    [socket_addr |-> Bin(1), local_addr |-> Bin(2), relay_server |-> Bin(3),
     id |-> Bin(4), version |-> Bin(5), socket_addr_v6 |-> Bin(6)]
PeerDiscovery ==
    [cmd |-> Bin(1), mac |-> Bin(2), id |-> Bin(3), username |-> Bin(4),
     hostname |-> Bin(5), platform |-> Bin(6), misc |-> Bin(7)]
OnlineRequest == [id |-> Bin(1), peers |-> Bins(2)]
OnlineResponse == [states |-> Bin(1)]
KeyExchange == [keys |-> Bins(1)]
HealthCheck == [token |-> Bin(1)]
HeaderEntry == [name |-> Bin(1), value |-> Bin(2)]
HttpProxyRequest ==
    [method |-> Bin(1), path |-> Bin(2), headers |-> Subs(3, "HeaderEntry"),
     body |-> Bin(4)]
HttpProxyResponse ==
    [status |-> Var(1), headers |-> Subs(2, "HeaderEntry"), body |-> Bin(3),
     error |-> Bin(4)]
RendezvousMessage ==
    [register_peer |-> OneSub(6, "RegisterPeer"),
     register_peer_response |-> OneSub(7, "RegisterPeerResponse"),
     punch_hole_request |-> OneSub(8, "PunchHoleRequest"),
     punch_hole |-> OneSub(9, "PunchHole"),
     punch_hole_sent |-> OneSub(10, "PunchHoleSent"),
     punch_hole_response |-> OneSub(11, "PunchHoleResponse"),
     fetch_local_addr |-> OneSub(12, "FetchLocalAddr"),
     local_addr |-> OneSub(13, "LocalAddr"),
     configure_update |-> OneSub(14, "ConfigUpdate"),
     register_pk |-> OneSub(15, "RegisterPk"),
     register_pk_response |-> OneSub(16, "RegisterPkResponse"),
     software_update |-> OneSub(17, "SoftwareUpdate"),
     request_relay |-> OneSub(18, "RequestRelay"),
     relay_response |-> OneSub(19, "RelayResponse"),
     test_nat_request |-> OneSub(20, "TestNatRequest"),
     test_nat_response |-> OneSub(21, "TestNatResponse"),
     peer_discovery |-> OneSub(22, "PeerDiscovery"),
     online_request |-> OneSub(23, "OnlineRequest"),
     online_response |-> OneSub(24, "OnlineResponse"),
     key_exchange |-> OneSub(25, "KeyExchange"), hc |-> OneSub(26, "HealthCheck"),
     http_proxy_request |-> OneSub(27, "HttpProxyRequest"),
     http_proxy_response |-> OneSub(28, "HttpProxyResponse")]

\* The types by name, as fields refer to them.
RendezvousTypes ==
    [RegisterPeer |-> RegisterPeer, RegisterPeerResponse |-> RegisterPeerResponse,
     PunchHoleRequest |-> PunchHoleRequest,
     ControlPermissions |-> ControlPermissions,
     ControlledContext |-> ControlledContext, PunchHole |-> PunchHole,
     TestNatRequest |-> TestNatRequest, TestNatResponse |-> TestNatResponse,
     PunchHoleSent |-> PunchHoleSent, RegisterPk |-> RegisterPk,
     RegisterPkResponse |-> RegisterPkResponse,
     PunchHoleResponse |-> PunchHoleResponse, ConfigUpdate |-> ConfigUpdate,
     RequestRelay |-> RequestRelay, RelayResponse |-> RelayResponse,
     SoftwareUpdate |-> SoftwareUpdate, FetchLocalAddr |-> FetchLocalAddr,
     LocalAddr |-> LocalAddr, PeerDiscovery |-> PeerDiscovery,
     OnlineRequest |-> OnlineRequest, OnlineResponse |-> OnlineResponse,
     KeyExchange |-> KeyExchange, HealthCheck |-> HealthCheck,
     HeaderEntry |-> HeaderEntry, HttpProxyRequest |-> HttpProxyRequest,
     HttpProxyResponse |-> HttpProxyResponse,
     RendezvousMessage |-> RendezvousMessage]

=============================================================================
