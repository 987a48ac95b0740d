SPECIFICATION GaugesSpec
CONSTANTS
    Lines = {1, 2}
    Boot <- MCBoot
    Width = 65536
    MaxTicks = 3
    MaxFalls = 1
PROPERTY MeasuredSinceLastSeen
