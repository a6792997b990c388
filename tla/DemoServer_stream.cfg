\* Two runs streamed to a tab that reads and to one that may be wedged.
SPECIFICATION DemoSpec
CONSTANTS
    Tabs = {"tab", "wedged"}
    Clickers = {"tab"}
    Readers = {"tab"}
    Capacity = 2
    MaxStarts = 2
    MaxTicks = 1
    MaxLosses = 1
    MaxAborts = 1
PROPERTIES
    OneStory
    RunsEnd
    EndIsShown
CHECK_DEADLOCK FALSE
