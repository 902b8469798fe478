----------------------------- MODULE DSDisplay ------------------------------
(***************************************************************************)
(* The EDID caches of the display adapter (hal/dDisplayImpl.h) and the     *)
(* HDMI status file (DeviceSettingsHdmiStatus.cpp).                        *)
(*                                                                         *)
(* A client's call fills a cache under dsDisplayLock; the HAL's event      *)
(* thread empties both without it.  The status file is read and rewritten  *)
(* whole, without a lock, by the start-up, by the display's event thread   *)
(* and by the HDCP callback's, which the HAL is free to run together.      *)
(***************************************************************************)
EXTENDS Naturals, Sequences

CONSTANTS
  DpCallers,    \* threads that serve clients
  Displays,     \* sinks a user can plug in
  MaxDpPlugs,   \* bound: cable events
  MaxDpCalls,   \* bound: calls and HDCP changes
  MaxDpRestarts \* bound: deactivations

VARIABLES
  dpStage,   \* down, listening (display callback set), starting,
             \* sampled (connection read), up
  plugged,   \* the sink behind the port, or "none"
  signalled, \* HAL: ALLM, content type, scan information
  dpEvents,  \* display events the HAL has still to deliver
  cachedEdid, \* by kind, static: "none" when the flag is off
  fill,      \* by caller: the cache fill in progress
  lines,     \* the status file, by key
  rewrite,   \* by thread: the lines to write and the file as it was read
  hdcpLine,  \* history: the last HDCP status and version reported
  missed,    \* history, by kind: a disconnection overlapped a fill or the absence
  lost,      \* history: rewrites overlapped, or a plug followed the sample
  dpPlugs, dpCalls, dpRestarts \* bound counters

dpBounds == <<dpPlugs, dpCalls, dpRestarts>>
dpEdid == <<cachedEdid, fill, missed>>
dpFile == <<lines, rewrite, hdcpLine, lost>>
dpVars == <<dpStage, plugged, signalled, dpEvents, dpEdid, dpFile, dpBounds>>

Kinds == {"struct", "bytes"} \* isEdidCached, isEdidBytesCached
Keys == {"hotplug", "hdcp_status", "hdcp_version"}
FileThreads == {"start", "display", "hdcp"}
NoFill == [step |-> "none"]
NoRewrite == [todo |-> <<>>, read |-> <<>>]
Hotplug(d) == IF d = "none" THEN "DISCONNECTED" ELSE "CONNECTED"

DpInit ==
  /\ dpStage = "down" /\ plugged \in Displays \cup {"none"} /\ dpEvents = <<>>
  /\ signalled = [s \in {"allm", "content", "scan"} |-> 0]
  /\ cachedEdid = [k \in Kinds |-> "none"] /\ fill = [c \in DpCallers |-> NoFill]
  /\ lines = [k \in Keys |-> "none"] /\ rewrite = [t \in FileThreads |-> NoRewrite]
  /\ hdcpLine = <<"none", "none">>
  /\ missed = [k \in Kinds |-> FALSE] /\ lost = FALSE
  /\ dpPlugs = 0 /\ dpCalls = 0 /\ dpRestarts = 0

-----------------------------------------------------------------------------
(* The status file.                                                        *)

Reading(t) == rewrite[t].todo # <<>> /\ rewrite[t].read = <<>>
Writing(t) == rewrite[t].read # <<>>
Rewrites(t, todo) == rewrite' = [rewrite EXCEPT ![t].todo = todo]

OnlyOwnLine(file, key, value) == \* (fault) the other lines are not kept
  [k \in Keys |-> IF k = key THEN value ELSE "none"]
\* The key's line is dropped from the lines read and appended with its value.
LineReplaced(file, key, value) == [file EXCEPT ![key] = value]

ReadStatusFile(t) ==
  /\ Reading(t)
  /\ rewrite' = [rewrite EXCEPT ![t].read = <<lines>>]
  /\ lost' = (lost \/ \E u \in FileThreads : Writing(u))
  /\ UNCHANGED <<dpStage, plugged, signalled, dpEvents, dpEdid, lines, hdcpLine, dpBounds>>
_dsSyncHdmiStatus(t) ==
  /\ Writing(t)
  /\ LET line == Head(rewrite[t].todo)
     IN lines' = LineReplaced(rewrite[t].read[1], line[1], line[2])
  /\ rewrite' = [rewrite EXCEPT ![t] = [todo |-> Tail(@.todo), read |-> <<>>]]
  /\ UNCHANGED <<dpStage, plugged, signalled, dpEvents, dpEdid, hdcpLine, lost, dpBounds>>

\* The display adapter is created first, then the video port's: it writes the
\* status and version, samples the connection and writes that, while the
\* display's callback is already live.
registerDisplayEventCallbacks ==
  /\ dpStage = "down" /\ dpStage' = "listening"
  /\ lost' = FALSE
  /\ UNCHANGED <<plugged, signalled, dpEvents, dpEdid, lines, rewrite, hdcpLine, dpBounds>>
InitialiseVideoPort ==
  /\ dpStage = "listening" /\ dpStage' = "starting"
  /\ Rewrites("start", << <<"hdcp_status", "UNAUTHENTICATED">>, <<"hdcp_version", "1X">> >>)
  /\ hdcpLine' = <<"UNAUTHENTICATED", "1X">>
  /\ UNCHANGED <<plugged, signalled, dpEvents, dpEdid, lines, lost, dpBounds>>
SampleConnection ==
  /\ dpStage = "starting" /\ rewrite["start"].todo = <<>> /\ dpStage' = "sampled"
  /\ Rewrites("start", << <<"hotplug", Hotplug(plugged)>> >>)
  /\ UNCHANGED <<plugged, signalled, dpEvents, dpEdid, lines, hdcpLine, lost, dpBounds>>
RegisterHdcpCallback ==
  /\ dpStage = "sampled" /\ rewrite["start"].todo = <<>> /\ dpStage' = "up"
  /\ UNCHANGED <<plugged, signalled, dpEvents, dpEdid, dpFile, dpBounds>>

\* The static caches survive a deactivation in the same process.
DpDeInitialiseHAL ==
  /\ dpStage = "up" /\ dpEvents = <<>> /\ dpRestarts < MaxDpRestarts
  /\ \A c \in DpCallers : fill[c] = NoFill
  /\ \A t \in FileThreads : rewrite[t] = NoRewrite
  /\ dpStage' = "down" /\ dpRestarts' = dpRestarts + 1
  /\ UNCHANGED <<plugged, signalled, dpEvents, dpEdid, dpFile, dpPlugs, dpCalls>>

-----------------------------------------------------------------------------
(* The sink and the HAL's events.                                          *)

\* While nothing listens a cached EDID outlives its sink; after the sample the
\* start-up may write over a newer event.
Plug(d) ==
  /\ dpPlugs < MaxDpPlugs /\ d # plugged /\ "none" \in {d, plugged}
  /\ dpPlugs' = dpPlugs + 1
  /\ plugged' = d
  /\ dpEvents' = IF dpStage # "down" THEN Append(dpEvents, Hotplug(d)) ELSE dpEvents
  /\ lost' = (lost \/ dpStage = "sampled")
  /\ missed' = [k \in Kinds |-> missed[k] \/ (dpStage = "down" /\ cachedEdid[k] # "none")]
  /\ UNCHANGED <<dpStage, signalled, cachedEdid, fill, lines, rewrite, hdcpLine, dpCalls, dpRestarts>>

Fetched(k) == \E c \in DpCallers : fill[c].step = "fetched" /\ fill[c].kind = k

ResetsStructOnly == \* (fault) the raw bytes stay cached
  /\ cachedEdid' = [cachedEdid EXCEPT !["struct"] = "none"]
  /\ missed' = [k \in Kinds |-> Fetched(k)]
ResetEdidCaches ==
  /\ cachedEdid' = [k \in Kinds |-> "none"]
  /\ missed' = [k \in Kinds |-> Fetched(k)]

dsDisplayEventCallback ==
  /\ dpEvents # <<>> /\ rewrite["display"] = NoRewrite
  /\ dpEvents' = Tail(dpEvents)
  /\ IF Head(dpEvents) = "DISCONNECTED" THEN ResetEdidCaches ELSE UNCHANGED <<cachedEdid, missed>>
  /\ Rewrites("display", << <<"hotplug", Head(dpEvents)>> >>)
  /\ UNCHANGED <<dpStage, plugged, signalled, fill, lines, hdcpLine, lost, dpBounds>>

VideoPortHDCPStatusCallback(status, version) ==
  /\ dpStage = "up" /\ rewrite["hdcp"] = NoRewrite /\ dpCalls < MaxDpCalls
  /\ dpCalls' = dpCalls + 1
  /\ status # "AUTHENTICATED" => version = "1X"
  /\ Rewrites("hdcp", << <<"hdcp_status", status>>, <<"hdcp_version", version>> >>)
  /\ hdcpLine' = <<status, version>>
  /\ UNCHANGED <<dpStage, plugged, signalled, dpEvents, dpEdid, lines, lost, dpPlugs, dpRestarts>>

-----------------------------------------------------------------------------
(* The clients' calls.                                                     *)

\* The flag is read before the lock is taken; a call that finds the cache
\* full answers from it.
GetDisplayEdid(c, k) ==
  /\ dpStage = "up" /\ fill[c] = NoFill /\ dpCalls < MaxDpCalls
  /\ cachedEdid[k] = "none"
  /\ dpCalls' = dpCalls + 1
  /\ fill' = [fill EXCEPT ![c] = [step |-> "waiting", kind |-> k]]
  /\ UNCHANGED <<dpStage, plugged, signalled, dpEvents, cachedEdid, missed, dpFile, dpPlugs, dpRestarts>>
FetchEdid(c) ==
  /\ fill[c].step = "waiting"
  /\ \A d \in DpCallers : fill[d].step # "fetched"
  /\ fill' = [fill EXCEPT ![c] =
       IF plugged = "none" THEN NoFill ELSE [step |-> "fetched", kind |-> @.kind, edid |-> plugged]]
  /\ UNCHANGED <<dpStage, plugged, signalled, dpEvents, cachedEdid, missed, dpFile, dpBounds>>
CacheEdid(c) ==
  /\ fill[c].step = "fetched"
  /\ cachedEdid' = [cachedEdid EXCEPT ![fill[c].kind] = fill[c].edid]
  /\ fill' = [fill EXCEPT ![c] = NoFill]
  /\ UNCHANGED <<dpStage, plugged, signalled, dpEvents, missed, dpFile, dpBounds>>

\* Get and set are one step under the lock; an equal value is not set again.
SetSignal(name, v) ==
  /\ dpStage = "up" /\ dpCalls < MaxDpCalls /\ signalled[name] # v
  /\ \A c \in DpCallers : fill[c].step # "fetched"
  /\ dpCalls' = dpCalls + 1
  /\ signalled' = [signalled EXCEPT ![name] = v]
  /\ UNCHANGED <<dpStage, plugged, dpEvents, dpEdid, dpFile, dpPlugs, dpRestarts>>
SetAllmEnabled(v) == SetSignal("allm", v)
SetAVIContentType(v) == SetSignal("content", v)
SetAVIScanInformation(v) == SetSignal("scan", v)

-----------------------------------------------------------------------------
DpNext ==
  \/ registerDisplayEventCallbacks \/ InitialiseVideoPort \/ SampleConnection
  \/ RegisterHdcpCallback \/ DpDeInitialiseHAL
  \/ \E d \in Displays \cup {"none"} : Plug(d)
  \/ dsDisplayEventCallback
  \/ \E s \in {"AUTHENTICATED", "UNAUTHENTICATED"}, v \in {"1X", "2X"} : VideoPortHDCPStatusCallback(s, v)
  \/ \E t \in FileThreads : ReadStatusFile(t) \/ _dsSyncHdmiStatus(t)
  \/ \E c \in DpCallers : FetchEdid(c) \/ CacheEdid(c) \/ \E k \in Kinds : GetDisplayEdid(c, k)
  \/ \E v \in 0..1 : SetAllmEnabled(v) \/ SetAVIContentType(v) \/ SetAVIScanInformation(v)

DpSpec == DpInit /\ [][DpNext]_dpVars

-----------------------------------------------------------------------------
(* Properties.                                                             *)

EventsHandled == dpStage = "up" /\ dpEvents = <<>>

\* Once the HAL's events are handled, what a getter serves from a cache is the
\* EDID of the sink that is plugged in, unless a disconnection overlapped a
\* fill or fell in a time without callback.
CachedEdidIsPlugged ==
  EventsHandled => \A k \in Kinds : ~missed[k] => cachedEdid[k] \in {"none", plugged}

\* At rest the status file tells the connection and the last HDCP report,
\* whoever wrote last, unless two rewrites overlapped.
StatusFileIsCurrent ==
  EventsHandled /\ ~lost /\ (\A t \in FileThreads : rewrite[t] = NoRewrite) =>
    lines = [hotplug |-> Hotplug(plugged), hdcp_status |-> hdcpLine[1], hdcp_version |-> hdcpLine[2]]
=============================================================================
