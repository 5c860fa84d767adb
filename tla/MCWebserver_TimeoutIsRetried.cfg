SPECIFICATION Spec
CONSTANTS
    app0 = app0
    app1 = app1
    Slot = {app0, app1}
    Update <- MCUpdate
    MaxLen = 2
    MaxEvents = 2
PROPERTIES
    TimeoutIsRetried
