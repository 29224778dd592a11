SPECIFICATION FairSpec
CONSTANTS
    gate = gate
    toggle = toggle
    trigger = trigger
    Slots = {gate, toggle, trigger}
    Gates = {gate}
    Toggles = {toggle}
    Loops = {gate, toggle}
    MaxBuilds = 1
    MaxQueue = 1
    HandsFreeGates = FALSE
INVARIANTS GateIsHeld LookGoesWithItsClip ScreenIsOwned
PROPERTIES ArmIsServed DoneClipLeaves
CHECK_DEADLOCK FALSE
