SPECIFICATION DispatchSpec
CONSTANTS
    Window = {w1}
    Panel = {}
    Leaf = {b1}
    Button = {b1}
    None = None
    MaxUpdates = 1
    DeviceEvent = {"move", "press", "release", "key_press"}
    Asked = {"release", "enter"}
    Acts <- ClickRemoves
CHECK_DEADLOCK FALSE
INVARIANTS HeldExist OneInside QueueIsThere
