SPECIFICATION Spec
CONSTANT None = None
PROPERTIES
    SchedulesProgress
    MessagesProgress
    RoomsProgress
    ServicesProgress
CHECK_DEADLOCK FALSE
