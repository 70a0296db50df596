------------------------------- MODULE NetLink -------------------------------
(***************************************************************************)
(* How a station's connection reaches the IP stack: the event shim         *)
(* (src/esp/common/wifi/esp_event_shim.c), the network interface           *)
(* (src/esp/common/net/netif_esp32c3.c) and the DHCP demo that connects    *)
(* them (src/apps/wifi_dhcp/wifi_dhcp.c).                                  *)
(*                                                                         *)
(* Three threads: the Wi-Fi task, in whose context the event handler runs; *)
(* main_task, which connects and retries on the conn_state the handler     *)
(* leaves; and the tcpip thread, which gets the link changes through its   *)
(* mailbox.  A sleep of main_task may end at any time (it is woken by the  *)
(* events too).  External: the Wi-Fi driver, which posts CONNECTED or      *)
(* DISCONNECTED for each connection attempt and DISCONNECTED for each lost *)
(* connection, and does not reconnect by itself; lwIP's DHCP client.       *)
(***************************************************************************)
EXTENDS Integers, Sequences, SequencesExt

CONSTANTS
  NetMboxSize,  \* TCPIP_MBOX_SIZE
  NetRetries,   \* the demo's retries, 20
  NetMaxEvents  \* bound: number of events

ASSUME NetAssumption == {NetMboxSize, NetRetries, NetMaxEvents} \subseteq Nat \ {0}

VARIABLES
  netDrv,     \* the driver: "off", "starting", "idle", "connecting",
              \* "connected", or "down" after a failure or a loss
  netHandler, \* the event in wifi_event_handler, and where it is
  netConn,    \* conn_state
  netMain,    \* where main_task is
  netRetry,   \* its retry
  netMbox,    \* the tcpip thread's mailbox
  netIf,      \* s_netif and the flags of netif_esp32c3.c; the address is 0 or 1
  netLast,    \* history: the last link change the handler was told of
  netLost,    \* history: tcpip_callback has failed
  netEvents   \* history: number of events

netEv   == <<netDrv, netHandler>>
netApp  == <<netConn, netMain, netRetry>>
netHist == <<netLast, netLost, netEvents>>
netVars == <<netEv, netApp, netMbox, netIf, netHist>>

NetMsgs == {"up", "down", "packet"}
NetQuiet == [ev |-> "none", at |-> "out"]

NetTypeOK ==
  /\ netDrv \in {"off", "starting", "idle", "connecting", "connected", "down"}
  /\ netHandler \in [ev : {"none", "start", "up", "down"}, at : {"out", "state", "post"}]
  /\ netConn \in -1..2
  /\ netMain \in {"start", "settle", "sleep", "test", "clear", "connect", "dhcp",
                  "failed", "got_ip", "no_ip"}
  /\ netRetry \in 0..NetRetries
  /\ netMbox \in Seq(NetMsgs) /\ Len(netMbox) <= NetMboxSize
  /\ netIf \in [link : BOOLEAN, rxcb : BOOLEAN, dhcp : BOOLEAN, addr : 0..1,
                reported : BOOLEAN, ping : BOOLEAN]
  /\ netLast \in {"none", "up", "down"} /\ netLost \in BOOLEAN
  /\ netEvents \in 0..NetMaxEvents

\* After netif_add: netif_esp32c3_init sets LINK_UP, but the interface is not up.
NetInit ==
  /\ netDrv = "off" /\ netHandler = NetQuiet
  /\ netConn = 0 /\ netMain = "start" /\ netRetry = 0
  /\ netMbox = <<>>
  /\ netIf = [link |-> FALSE, rxcb |-> FALSE, dhcp |-> FALSE, addr |-> 0,
              reported |-> FALSE, ping |-> FALSE]
  /\ netLast = "none" /\ netLost = FALSE /\ netEvents = 0

-----------------------------------------------------------------------------
(* The Wi-Fi task: the driver's events and wifi_event_handler, which       *)
(* esp_event_post calls.                                                   *)

\* The driver changes state and posts event ev.
NetPost(ev, drv) ==
  /\ netHandler = NetQuiet
  /\ netEvents < NetMaxEvents /\ netEvents' = netEvents + 1
  /\ netHandler' = [ev |-> ev, at |-> "state"]
  /\ netDrv' = drv
  /\ UNCHANGED <<netApp, netMbox, netIf, netLast, netLost>>

NetDriver ==
  \/ netDrv = "starting" /\ NetPost("start", "idle")
  \/ netDrv = "connecting" /\ NetPost("up", "connected")
  \/ netDrv \in {"connecting", "connected"} /\ NetPost("down", "down")

\* conn_state.
NetHandlerState ==
  /\ netHandler.at = "state"
  /\ \/ netHandler.ev = "start" /\ netConn' = 2 /\ netHandler' = NetQuiet
     \/ netHandler.ev = "up" /\ netConn' = 1 /\ netHandler' = [netHandler EXCEPT !.at = "post"]
     \/ netHandler.ev = "down" /\ netConn' = -1
        /\ netHandler' = [netHandler EXCEPT !.at = "post"]
  /\ UNCHANGED <<netDrv, netMain, netRetry, netMbox, netIf, netHist>>

\* netif_esp32c3_notify_link: tcpip_callback waits for room in the mailbox; that
\* it may find no memory for the message is not looked at.
NetNotifyLink ==
  /\ netHandler.at = "post"
  /\ \/ /\ Len(netMbox) < NetMboxSize
        /\ netMbox' = Append(netMbox, netHandler.ev)
        /\ UNCHANGED netLost
     \/ netLost' = TRUE /\ UNCHANGED netMbox
  /\ netLast' = netHandler.ev
  /\ netHandler' = NetQuiet
  /\ UNCHANGED <<netDrv, netApp, netIf, netEvents>>

\* wifi_rx_cb: a frame for which the mailbox has no room is freed.
NetRx ==
  /\ netIf.rxcb
  /\ netDrv = "connected" /\ netHandler = NetQuiet
  /\ Len(netMbox) < NetMboxSize
  /\ netMbox' = Append(netMbox, "packet")
  /\ UNCHANGED <<netEv, netApp, netIf, netHist>>

-----------------------------------------------------------------------------
(* main_task                                                               *)

NetAt(l, m) == netMain = l /\ netMain' = m

\* netif_esp32c3_start, the registration of the handler and esp_wifi_start.
NetStart ==
  /\ NetAt("start", "settle")
  /\ netDrv' = "starting"
  /\ UNCHANGED <<netHandler, netConn, netRetry, netMbox, netIf, netHist>>

\* esp_wifi_connect, whose result is not used.
NetWifiConnect ==
  netDrv' = IF netDrv \in {"idle", "down"} THEN "connecting" ELSE netDrv

NetFirstConnect ==
  /\ NetAt("settle", "sleep")
  /\ NetWifiConnect
  /\ UNCHANGED <<netHandler, netConn, netRetry, netMbox, netIf, netHist>>

\* The next iteration, or the end of the retries and the last look at conn_state.
NetNextTry ==
  /\ netRetry' = (netRetry + 1) % NetRetries
  /\ netMain' = IF netRetry + 1 < NetRetries THEN "sleep"
                ELSE IF netConn = 1 THEN "dhcp" ELSE "failed"

\* The first look at conn_state after a sleep ...
NetCheckConnected ==
  /\ \/ netConn = 1 /\ NetAt("sleep", "dhcp") /\ netRetry' = 0
     \/ netConn # 1 /\ NetAt("sleep", "test") /\ UNCHANGED netRetry
  /\ UNCHANGED <<netEv, netConn, netMbox, netIf, netHist>>

\* ... and the second.
NetCheckDisconnected ==
  /\ netMain = "test"
  /\ \/ netConn = -1 /\ netMain' = "clear" /\ UNCHANGED netRetry
     \/ netConn # -1 /\ NetNextTry
  /\ UNCHANGED <<netEv, netConn, netMbox, netIf, netHist>>

\* Mutant: conn_state is cleared after the call.
NetRetryClearsLast ==
  /\ \/ NetAt("clear", "connect") /\ NetWifiConnect /\ UNCHANGED <<netConn, netRetry>>
     \/ netMain = "connect" /\ NetNextTry /\ netConn' = 0 /\ UNCHANGED netDrv
  /\ UNCHANGED <<netHandler, netMbox, netIf, netHist>>

\* conn_state is cleared, then esp_wifi_connect is called.
NetRetryConnect ==
  /\ \/ NetAt("clear", "connect") /\ netConn' = 0 /\ UNCHANGED <<netDrv, netRetry>>
     \/ netMain = "connect" /\ NetNextTry /\ NetWifiConnect /\ UNCHANGED netConn
  /\ UNCHANGED <<netHandler, netMbox, netIf, netHist>>

\* Polling the address.
NetAwaitIp ==
  /\ \/ netIf.addr # 0 /\ NetAt("dhcp", "got_ip") /\ UNCHANGED netRetry
     \/ /\ netIf.addr = 0 /\ netRetry < NetRetries
        /\ NetAt("dhcp", IF netRetry + 1 < NetRetries THEN "dhcp" ELSE "no_ip")
        /\ netRetry' = netRetry + 1
  /\ UNCHANGED <<netEv, netConn, netMbox, netIf, netHist>>

-----------------------------------------------------------------------------
(* The tcpip thread                                                        *)

\* netif_status_cb when the interface has address a.
NetStatus(if, a) ==
  IF a = 0 \/ if.reported THEN [if EXCEPT !.addr = a]
  ELSE [if EXCEPT !.addr = a, !.reported = TRUE, !.ping = TRUE]

HandleLinkUp(if) == [if EXCEPT !.link = TRUE, !.rxcb = TRUE, !.dhcp = TRUE,
                               !.reported = FALSE]

\* Mutant: s_ip_reported is left as it is.
HandleLinkDownReported(if) ==
  [NetStatus(if, IF if.dhcp THEN 0 ELSE if.addr)
     EXCEPT !.dhcp = FALSE, !.link = FALSE, !.rxcb = FALSE]

\* dhcp_release_and_stop gives up the address; ping_stop is empty in the build that
\* takes lwIP from ESP-IDF, so that a ping once begun goes on.
HandleLinkDown(if) ==
  [NetStatus(if, IF if.dhcp THEN 0 ELSE if.addr)
     EXCEPT !.dhcp = FALSE, !.link = FALSE, !.rxcb = FALSE, !.reported = FALSE]

NetTcpip ==
  /\ netMbox # <<>>
  /\ netMbox' = Tail(netMbox)
  /\ \/ Head(netMbox) = "up" /\ netIf' = HandleLinkUp(netIf)
     \/ Head(netMbox) = "down" /\ netIf' = HandleLinkDown(netIf)
     \/ Head(netMbox) = "packet" /\ UNCHANGED netIf
  /\ UNCHANGED <<netEv, netApp, netHist>>

\* The DHCP client binds, or loses, an address.
NetDhcp ==
  /\ netIf.dhcp
  /\ netIf' = NetStatus(netIf, 1 - netIf.addr)
  /\ UNCHANGED <<netEv, netApp, netMbox, netHist>>

NetNext ==
  \/ NetDriver \/ NetHandlerState \/ NetNotifyLink \/ NetRx
  \/ NetStart \/ NetFirstConnect \/ NetCheckConnected \/ NetCheckDisconnected
  \/ NetRetryConnect \/ NetAwaitIp
  \/ NetTcpip \/ NetDhcp

NetSpec == NetInit /\ [][NetNext]_netVars

-----------------------------------------------------------------------------
(* Properties                                                              *)

\* Unless tcpip_callback has lost a link change, the interface follows the link:
\* once the tcpip thread has handled the changes it was sent, the receive callback
\* and the DHCP client are there exactly when the last event was CONNECTED; and at
\* any time an address has been reported, and what a report stands for is there: the
\* DHCP client it came from and the ping it starts.  The ping may outlive the link.
NetFollowsLink ==
  ~netLost =>
    /\ (netHandler = NetQuiet /\ {"up", "down"} \cap Range(netMbox) = {})
       => \A b \in {netIf.link, netIf.rxcb, netIf.dhcp} : b = (netLast = "up")
    /\ netIf.addr # 0 => netIf.reported
    /\ netIf.reported => netIf.dhcp /\ netIf.ping

\* No failure of a connection is lost between main_task and the event handler:
\* while main_task still retries and the driver is down, with its event handled,
\* conn_state tells main_task to connect again.
NetRetryNotLost ==
  (netMain = "sleep" /\ netDrv = "down" /\ netHandler = NetQuiet) => netConn = -1
=============================================================================
