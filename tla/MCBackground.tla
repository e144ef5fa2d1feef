----------------------------- MODULE MCBackground -----------------------------
(* Two services that work in the background of the server, side by side: the *)
(* port forwards and the recording of a timeline.  `part` says which of them *)
(* moves; a run names the Parts it is about.                                 *)
EXTENDS PortForward, Timeline

CONSTANT Parts

VARIABLE part

backgroundVars == <<part, forwardVars, timelineVars>>

BackgroundInit == part \in Parts /\ ForwardInit /\ TimelineInit

BackgroundNext ==
  \/ part = "forward" /\ ForwardNext /\ UNCHANGED <<part, timelineVars>>
  \/ part = "timeline" /\ TimelineNext /\ UNCHANGED <<part, forwardVars>>

BackgroundSpec == BackgroundInit /\ [][BackgroundNext]_backgroundVars

\* Goroutines run, every wait has a timeout, and a run that is told to stop
\* returns.
ForwardFairness ==
  /\ \A c \in Starts :
       /\ WF_forwardVars(part = "forward" /\ Reserve(c))
       /\ WF_forwardVars(part = "forward" /\ Wake(c))
       /\ WF_forwardVars(part = "forward" /\ Resolve(c))
       /\ WF_forwardVars(part = "forward" /\ (Register(c) \/ LaunchFails(c)))
       /\ WF_forwardVars(part = "forward" /\ Return(c))
  /\ \A r \in Runs : WF_forwardVars(part = "forward" /\ r \in halted /\ RunReturns(r))
  /\ WF_forwardVars(part = "forward" /\ (Adopt \/ MoveFails))

\* The writer runs, the store answers or times out, and close goes on once begun.
TimelineFairness ==
  /\ WF_timelineVars(/\ part = "timeline"
                     /\ \/ Prune \/ Take \/ Fill \/ ReadGap \/ TellGap \/ GapRefused
                        \/ Write \/ WriteRefused)
  /\ WF_timelineVars(part = "timeline" /\ Flush)
  /\ WF_timelineVars(part = "timeline" /\ StopBackend)
  /\ WF_timelineVars(part = "timeline" /\ RequestStop)

FairBackgroundSpec ==
  BackgroundSpec /\ ForwardFairness /\ TimelineFairness

===============================================================================
