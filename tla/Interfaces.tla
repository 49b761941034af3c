------------------------------ MODULE Interfaces ------------------------------
(* What the daemon shares with others: the control socket (Control), the log it  *)
(* serves (LogTail), the system files it edits (PfConf), the rules it gives to   *)
(* pf (PfRules), the list it learns (AutoList), the prefixes a reload replaces   *)
(* (CidrSet) and the switch of the ipset files (IpsetSwitch). The parts have no  *)
(* variable in common; here is what they promise.                                *)
EXTENDS Control, LogTail, PfConf, PfRules, AutoList, CidrSet, IpsetSwitch

(* Control and LogTail: a request is answered once, as done only when its       *)
(* handler has ended well; a reader of the log gets its history and no line is  *)
(* left out; the path leads to the daemon that serves, and what a crash left    *)
(* does not keep the next one from listening.                                   *)
SocketServes ==
    /\ ControlTypeOK /\ LogTailTypeOK
    /\ OkMeansDone /\ OneAnswer /\ Answered /\ HistoryDelivered
    /\ RestartListens /\ ServedIsReachable
    /\ NothingSkipped /\ HistoryIsLatest

(* PfConf: a patch works (pf reaches our anchors before every rule of others,   *)
(* the file is still parsed, the resolver finds the entries once), a second one *)
(* changes nothing, and taking it out restores the file.                        *)
PatchesApply ==
    /\ PfConfTypeOK
    /\ AnchorsComeFirst /\ PatchParses /\ EntriesOnce
    /\ PatchSettles /\ RemovalRestores

(* PfRules: a transport gets the packets of its window and no other and nothing *)
(* the daemon sends comes back to it (but packets to another address of this    *)
(* machine, OwnAddress, under the rules of the proxy), and a reload of divert   *)
(* that reports success has its rules in pf.                                    *)
RulesSteer == PfRulesTypeOK /\ SteersExactly /\ NoLoop /\ RetryLoads

(* AutoList, CidrSet and IpsetSwitch: a lookup finds what the list holds,       *)
(* however it came in, the table of pending hosts keeps its bound; the real     *)
(* list is in one of the two files, and a switch that answers "ok" is in force. *)
ListsHold ==
    /\ AutoListTypeOK /\ CoversSuffixes /\ TrackedBounded
    /\ CidrTypeOK /\ MatchIsMembership
    /\ IpsetTypeOK /\ RealListKept /\ OkMeansSwitched

(* AutoList: failures spread wide put no host on the list, and what its file    *)
(* holds stays there.                                                           *)
ListsLearn == TricklesForgotten /\ WrittenStays

(* Every connection ends and so does a daemon told to; a follower gets a line   *)
(* without waiting for the next; a learned host reaches the file.               *)
InterfacesProgress == ConnectionsEnd /\ CloseEnds /\ PromptLines /\ LearnedIsWritten
===============================================================================
