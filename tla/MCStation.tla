------------------------------- MODULE MCStation -------------------------------
(***************************************************************************)
(* Small tasks of the station beside the radio: the neighbour table and    *)
(* discovery, the user button, the periodic adverts, the wall clock, the   *)
(* mounting of the storage at boot, and the line a command is typed into.  *)
(* They share no state but the time, so in a behaviour one of them moves   *)
(* and the others stay as they begin: their states add up.                 *)
(***************************************************************************)
EXTENDS Neighbourhood, UserButton, PeriodicAdverts, WallClock, StorageMount, LineEditors

CONSTANTS own, x, y, z

VARIABLE focus

MCSnr == [key \in {own, x, y, z} |-> CASE key = y -> 3 [] key = z -> 3 [] OTHER -> -5]

Rest == <<neighbourVars, buttonVars, advertVars, clockVars, mountVars, lineVars>>

Init ==
  /\ now = 0
  /\ focus \in {"neighbours", "button", "adverts", "clock", "storage", "lines"}
  /\ NeighbourhoodInit
  /\ ButtonInit /\ (focus # "button" => screen = "plain" /\ pin = "up")
  /\ AdvertsInit /\ (focus # "adverts" => \A kind \in Kinds : interval[kind] = 0)
  /\ ClockInit /\ (focus # "clock" => ~retaining)
  /\ MountInit /\ (focus # "storage" => Mounts /\ partition)
  /\ LinesInit /\ (focus # "lines" => peer = "console" /\ enter = <<"cr">>)

Next ==
  /\ UNCHANGED focus
  /\ \/ focus = "neighbours" /\ NeighbourhoodNext
        /\ UNCHANGED <<buttonVars, advertVars, clockVars, mountVars, lineVars>>
     \/ focus = "button" /\ ButtonNext
        /\ UNCHANGED <<now, neighbourVars, advertVars, clockVars, mountVars, lineVars>>
     \/ focus = "adverts" /\ AdvertsNext
        /\ UNCHANGED <<neighbourVars, buttonVars, clockVars, mountVars, lineVars>>
     \/ focus = "clock" /\ ClockNext
        /\ UNCHANGED <<now, neighbourVars, buttonVars, advertVars, mountVars, lineVars>>
     \/ focus = "storage" /\ MountNext
        /\ UNCHANGED <<now, neighbourVars, buttonVars, advertVars, clockVars, lineVars>>
     \/ focus = "lines" /\ LinesNext
        /\ UNCHANGED <<now, neighbourVars, buttonVars, advertVars, clockVars, mountVars>>

Spec == Init /\ [][Next]_<<now, focus, Rest>>
==============================================================================
