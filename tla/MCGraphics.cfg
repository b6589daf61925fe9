CONSTANTS
    LineDistance = 2
    LengthThreshold = 3
    CircleDistance = 3
    CirclesPerCell = 1
    Acts <- McLayout
    DeviceArea <- McDeviceArea
    Sizes <- McSizes
    First <- McFirst
    Second <- McSecond
    MaxActions = 5
    Polylines <- McPolylines
    Batches <- McBatches
    Area <- McArea
SPECIFICATION MCSpec
INVARIANTS SnapshotsShowTheirPlots PlotsMeanTheirRecordings PreviewsKeepShapes
CHECK_DEADLOCK FALSE
