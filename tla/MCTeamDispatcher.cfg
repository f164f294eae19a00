CONSTANTS
    Handlers = {"hPort", "hOption", "hBoth"}
    HandlerMask <- MCHandlerMask
    MaxChanges = 2
SPECIFICATION DispatcherSpec
INVARIANT NoLostChange
